---- MODULE Spec2Model ----
(***************************************************************************)
(* Gas monitor host software: the PyQt GUI supervisor (Python/kode.py) and *)
(* the console controller (Python/gas_monitor_CLI.py).                     *)
(*                                                                         *)
(* Text is modelled as a sequence of atoms: a keyword of the wire protocol *)
(* ("GAS", "ON", ...) is one atom, and ":", ",", "_", "-", the digits and  *)
(* any other character are one atom each.  str.split, str.startswith,      *)
(* int() and str() are computed on these sequences.                        *)
(* Python's None is the empty sequence <<>>, a value v is <<v>>.           *)
(***************************************************************************)
EXTENDS Integers, Sequences, FiniteSets, TLC

VARIABLES
    \* ---- codec harness: one line handed to both parsers
    p_pc, p_line, p_out,
    \* ---- delta filter harness
    f_pc, f_prev, f_cur, f_gui, f_cli,
    \* ---- console controller (gas_monitor_CLI.py)
    c_pc,        \* main thread: "start", "connect", "menu", "done"
    c_attempt,   \* connect_serial: attempts that have failed so far
    c_trace,     \* connect_serial: the calls it has made, in order
    c_conn,      \* self.serial_conn: "none", "open", "closed"
    c_running,   \* self.running
    c_status,    \* self.current_status
    c_log,       \* self.log_data
    c_file,      \* contents of gas_monitor_log.json
    c_last_gas,  \* self.last_gas_value
    c_wire,      \* tokens written to the device
    cm_pc,       \* monitor_serial thread: "idle", "while", "is_open",
                 \*   "in_waiting", "sleep", "exited"
    cm_last,     \* what the last pass through the try block met
    now,         \* wall clock (datetime.now()), counted in days
    \* ---- GUI supervisor (kode.py)
    g_pc,        \* main thread: "init", "idle" (event loop), "ar_wait_mon",
                 \*   "ar_wait_demo" (blocked in QThread.wait), "dialog" (port
                 \*   dialog open), "failbox" (warning box open), "sdm_wait"
    g_ret,       \* where the handler blocked in start_demo_mode returns to
    g_conn,      \* self.serial_conn: "none", "open", "closed"
    g_monitor_thread,  \* self.monitor_thread is not None
    g_demo_thread,     \* self.demo_thread is not None
    g_demo_mode,       \* self.demo_mode
    g_connected,       \* self.current_status['connected']
    g_status,    \* the other keys of self.current_status
    g_log,       \* self.log_data
    g_file,      \* contents of gas_monitor_log.json
    g_events,    \* queued signals for the main thread, oldest first
    g_wire,      \* tokens written to the device
    g_ports,     \* the last port scan found a port
    g_opens,     \* serial.Serial() calls of the current connect operation
    g_req,       \* the last threshold request of the user
    g_nemit,     \* dataReceived signals emitted so far, by either thread
    gm_pc,       \* SerialMonitorThread.run: "idle", "while", "is_open",
                 \*   "in_waiting", "exited"
    gm_running,  \* SerialMonitorThread.running
    gm_conn,     \* state of the port object the thread holds
    gm_last_gas, \* SerialMonitorThread.last_gas_value
    gm_last,     \* what the last pass through the try block met
    gd_pc,       \* DemoDataThread.run: "idle", "while", "exited"
    gd_running,  \* DemoDataThread.running
    gd_gas,      \* DemoDataThread.gas_value
    gd_last_gas, \* DemoDataThread.last_gas_value
    \* ---- the log file's disk and the record of the last store operation
    disk,        \* "ok", or "failing": open() of the log file raises
    s_who,       \* which program runs in the store scenario: "cli", "gui"
    s_pc,        \* "off", "boot" (before setup_logging), "run"
    s_op,        \* the last store operation: "none", "load", "append",
                 \*   "reading" (filtered out), "prune"
    s_removed,   \* the count the prune just run reported
    s_cut,       \* the cutoff <<c>> or date range <<from, to>> it used
    \* ---- the device behind the GUI's open port
    g_link,      \* "up"; "down": it has gone silent, the port stays open;
                 \* "checked": down, and check_connection has run since
    valid_logs,     \* cleanup_old_logs: the local list valid_logs
    for_i,          \* cleanup_old_logs: entries its for loop has taken
    original_count, \* cleanup_old_logs: the local original_count
    log_entry       \* add_log_entry: the local log_entry, None before

parseVars == <<p_pc, p_line, p_out>>
filterVars == <<f_pc, f_prev, f_cur, f_gui, f_cli>>
raceVars == <<valid_logs, for_i, original_count, log_entry>>
cliData == <<c_status, c_log, c_file, c_last_gas>>
cliVars == <<c_pc, c_attempt, c_trace, c_conn, c_running, cliData, c_wire, cm_pc,
             cm_last, now>>
guiStore == <<g_log, g_file>>
guiMain == <<g_pc, g_ret, g_conn, g_monitor_thread, g_demo_thread, g_demo_mode,
             g_connected, g_status, guiStore, g_wire, g_ports, g_opens, g_req>>
guiThreadsMon == <<gm_pc, gm_running, gm_conn, gm_last_gas, gm_last>>
guiThreadsDemo == <<gd_pc, gd_running, gd_gas, gd_last_gas>>
guiVars == <<guiMain, g_events, g_nemit, guiThreadsMon, guiThreadsDemo>>
storeVars == <<disk, s_who, s_pc, s_op, s_removed, s_cut, g_link>>
vars == <<parseVars, filterVars, raceVars, cliVars, guiVars, storeVars>>

\* a step of the GUI leaves the console controller and the harnesses alone
GuiFrame == UNCHANGED <<parseVars, filterVars, raceVars, cliVars, storeVars>>

\* a step of the console controller leaves the GUI and the harnesses alone
CliFrame == UNCHANGED <<parseVars, filterVars, raceVars, guiVars, storeVars>>

None == <<>>
Some(v) == <<v>>

(***************************************************************************)
(* Text helpers                                                            *)
(***************************************************************************)
Digits == <<"0", "1", "2", "3", "4", "5", "6", "7", "8", "9">>

IsDigit(c) == \E i \in 1..10 : Digits[i] = c

DigitVal(c) == (CHOOSE i \in 1..10 : Digits[i] = c) - 1

\* str.startswith(prefix)
StartsWith(s, prefix) ==
    /\ Len(s) >= Len(prefix)
    /\ SubSeq(s, 1, Len(prefix)) = prefix

\* index of the first atom equal to sep, 0 when there is none
RECURSIVE FindFrom(_, _, _)
FindFrom(s, sep, i) ==
    IF i > Len(s) THEN 0
    ELSE IF s[i] = sep THEN i
    ELSE FindFrom(s, sep, i + 1)

\* str.split(sep): the pieces between the separators, at least one piece
RECURSIVE Split(_, _)
Split(s, sep) ==
    LET k == FindFrom(s, sep, 1) IN
    IF k = 0 THEN <<s>>
    ELSE <<SubSeq(s, 1, k - 1)>> \o Split(SubSeq(s, k + 1, Len(s)), sep)

\* value of a non-empty sequence of digits
RECURSIVE NatOf(_)
NatOf(s) ==
    IF Len(s) = 0 THEN 0
    ELSE 10 * NatOf(SubSeq(s, 1, Len(s) - 1)) + DigitVal(s[Len(s)])

AllDigits(s) == Len(s) > 0 /\ \A i \in 1..Len(s) : IsDigit(s[i])

\* int(text) succeeds: an optional sign followed by digits
IsInt(s) ==
    IF Len(s) > 0 /\ s[1] \in {"-", "+"} THEN AllDigits(Tail(s)) ELSE AllDigits(s)

\* int(text)
IntOf(s) ==
    IF s[1] = "-" THEN 0 - NatOf(Tail(s))
    ELSE IF s[1] = "+" THEN NatOf(Tail(s))
    ELSE NatOf(s)

\* str(n) of a natural number
RECURSIVE StrOfNat(_)
StrOfNat(n) ==
    IF n < 10 THEN <<Digits[n + 1]>>
    ELSE StrOfNat(n \div 10) \o <<Digits[(n % 10) + 1]>>

\* str(n), as an f-string formats an integer
StrOfInt(n) == IF n < 0 THEN <<"-">> \o StrOfNat(0 - n) ELSE StrOfNat(n)

(***************************************************************************)
(* Line protocol codec                                                     *)
(***************************************************************************)
\* parts[i].split(':')[1] raises IndexError
NoValue(parts, i) == Len(parts) < i \/ Len(Split(parts[i], ":")) < 2

\* parts[i].split(':')[1]   (i counts from 1)
ValueOf(parts, i) == Split(parts[i], ":")[2]

\* the body of the try block raises (IndexError or ValueError)
ParseRaises(parts) ==
    \/ \E i \in 1..5 : NoValue(parts, i)
    \/ ~IsInt(ValueOf(parts, 1))
    \/ ~IsInt(ValueOf(parts, 5))

\* ParsedFields with the LED and BUZZER indices exchanged
ParsedFieldsSwapped(parts) ==
    [gas       |-> IntOf(ValueOf(parts, 1)),
     led       |-> ValueOf(parts, 3),
     buzzer    |-> ValueOf(parts, 2),
     auto      |-> ValueOf(parts, 4),
     threshold |-> IntOf(ValueOf(parts, 5))]

\* the five values read from the parts of a line
ParsedFields(parts) ==
    [gas       |-> IntOf(ValueOf(parts, 1)),
     led       |-> ValueOf(parts, 2),
     buzzer    |-> ValueOf(parts, 3),
     auto      |-> ValueOf(parts, 4),
     threshold |-> IntOf(ValueOf(parts, 5))]

\* SerialMonitorThread.parse_arduino_data: the record, or None
parse_arduino_data(data) ==
    IF StartsWith(data, <<"GAS", ":">>)
    THEN LET parts == Split(data, ",") IN
         IF ParseRaises(parts) THEN None ELSE Some(ParsedFields(parts))
    ELSE None

(***************************************************************************)
(* Delta filter                                                            *)
(***************************************************************************)
Abs(x) == IF x < 0 THEN 0 - x ELSE x

MinDelta == 10

\* should_log_data without abs(): only rises count
should_log_data_no_abs(last_gas_value, current_gas) ==
    IF last_gas_value = None THEN TRUE
    ELSE current_gas - last_gas_value[1] >= MinDelta

\* SerialMonitorThread.should_log_data, last_gas_value passed in
should_log_data(last_gas_value, current_gas) ==
    IF last_gas_value = None THEN TRUE
    ELSE Abs(current_gas - last_gas_value[1]) >= MinDelta

\* the condition of GasMonitorController.add_log_entry
cli_delta_accept(last_gas_value, gas_value) ==
    last_gas_value = None \/ Abs(gas_value - last_gas_value[1]) >= MinDelta

(***************************************************************************)
(* Timestamps and the snapshot file                                        *)
(* The clock counts days; strftime writes the day as two digits, standing  *)
(* for the zero-padded '%Y-%m-%d %H:%M:%S' text.  The file is JSON text:   *)
(* json.dump writes it from the entries, json.load parses it back.         *)
(***************************************************************************)
\* datetime.strftime: the day, zero-padded to two digits
Strftime(t) == <<Digits[(t \div 10) + 1], Digits[(t % 10) + 1]>>

\* datetime.strptime does not raise ValueError
StrptimeOk(s) == Len(s) = 2 /\ AllDigits(s)

\* datetime.strptime
Strptime(s) == NatOf(s)

\* keys whose values the programs hold as int
IntKeys == {"gas_value", "gas", "threshold"}

\* the keys of a log entry of the console controller, in insertion order
CliKeys == <<"timestamp", "gas_value">>

\* the keys of a log entry of the GUI, in insertion order
GuiKeys == <<"timestamp", "gas", "led", "buzzer", "auto", "threshold">>

Quote == "\""

\* json.dump of one value: an int as digits, a str between quotes
JsonValue(k, v) ==
    IF k \in IntKeys THEN StrOfInt(v) ELSE <<Quote>> \o v \o <<Quote>>

\* json.dump of one entry: {"k": v, ...}, keys in insertion order
RECURSIVE JsonMembers(_, _, _)
JsonMembers(e, keys, i) ==
    IF i > Len(keys) THEN <<>>
    ELSE (IF i > 1 THEN <<",">> ELSE <<>>)
         \o <<Quote, keys[i], Quote, ":">> \o JsonValue(keys[i], e[keys[i]])
         \o JsonMembers(e, keys, i + 1)

JsonObject(e, keys) == <<"{">> \o JsonMembers(e, keys, 1) \o <<"}">>

\* json.dump(self.log_data, f): [obj, obj, ...]
RECURSIVE JsonItems(_, _, _)
JsonItems(log, keys, i) ==
    IF i > Len(log) THEN <<>>
    ELSE (IF i > 1 THEN <<",">> ELSE <<>>) \o JsonObject(log[i], keys)
         \o JsonItems(log, keys, i + 1)

json_dump(log, keys) == <<"[">> \o JsonItems(log, keys, 1) \o <<"]">>

\* ---- json.load
\* the text of the i-th object without its braces; pieces are what lies
\* between the closing braces of the list body
ObjectBody(pieces, i) ==
    IF i = 1 THEN Tail(pieces[i]) ELSE Tail(Tail(pieces[i]))

\* piece i opens an object: "{" for the first, ",{" for the others
OpensObject(pieces, i) ==
    IF i = 1 THEN StartsWith(pieces[i], <<"{">>)
    ELSE StartsWith(pieces[i], <<",", "{">>)

\* one "key": value member, split at its colon, is well formed
KeyValueOk(kv) ==
    /\ Len(kv) = 2
    /\ Len(kv[1]) = 3 /\ kv[1][1] = Quote /\ kv[1][3] = Quote
    /\ \/ IsInt(kv[2])
       \/ Len(kv[2]) >= 2 /\ kv[2][1] = Quote /\ kv[2][Len(kv[2])] = Quote

MemberOk(m) == \A kv \in {Split(m, ":")} : KeyValueOk(kv)

MemberKey(m) == Split(m, ":")[1][2]

\* the value of a member: an int, or the text between the quotes
MemberValue(m) ==
    LET v == Split(m, ":")[2] IN
    IF v[1] = Quote THEN SubSeq(v, 2, Len(v) - 1) ELSE IntOf(v)

\* the body of the list: the text between "[" and "]"
ListBody(text) == SubSeq(text, 2, Len(text) - 1)

\* every member of an object body is well formed
MembersOk(body) ==
    \A ms \in {Split(body, ",")} : \A m \in 1..Len(ms) : MemberOk(ms[m])

\* json.load raises (JSONDecodeError): the text is not a list of objects
JsonRaises(text) ==
    \/ Len(text) < 2
    \/ text[1] # "[" \/ text[Len(text)] # "]"
    \/ \E pieces \in {Split(ListBody(text), "}")} :
          \/ pieces[Len(pieces)] # <<>>
          \/ \E i \in 1..(Len(pieces) - 1) :
                \/ ~OpensObject(pieces, i)
                \/ ~MembersOk(ObjectBody(pieces, i))

\* the dict built from the members ms of one object
MembersDict(ms) ==
    [k \in {MemberKey(ms[m]) : m \in 1..Len(ms)} |->
        MemberValue(ms[CHOOSE m \in 1..Len(ms) : MemberKey(ms[m]) = k])]

\* the dict json.load builds from one object body
JsonDict(body) ==
    CHOOSE d \in {MembersDict(ms) : ms \in {Split(body, ",")}} : TRUE

\* the dicts of the first n objects, in the order of the text
ObjectList(pieces, n) == [i \in 1..n |-> JsonDict(ObjectBody(pieces, i))]

\* a json.load that loses the last object of the list
json_load_short(text) ==
    CHOOSE log \in {ObjectList(pieces, Len(pieces) - 2) :
                       pieces \in {Split(ListBody(text), "}")}} : TRUE

\* json.load(f) of a text that does not raise: the list of dicts
json_load(text) ==
    CHOOSE log \in {ObjectList(pieces, Len(pieces) - 1) :
                       pieces \in {Split(ListBody(text), "}")}} : TRUE

\* os.path.exists(self.log_file): None stands for no file
FileExists(file) == file # None

\* a load that takes any text the disk hands over
LoadOkLax(file) == disk = "ok"

\* open(self.log_file) and json.load raise nothing
LoadOk(file) == disk = "ok" /\ ~JsonRaises(file)

\* days an entry is kept: timedelta(days=30)
RetentionDays == 30

(***************************************************************************)
(* Console controller: gas_monitor_CLI.py                                  *)
(***************************************************************************)
InitStatus == [gas |-> 0, led |-> <<"OFF">>, buzzer |-> <<"OFF">>,
               auto |-> <<"ON">>, threshold |-> 400]

\* GasMonitorController.save_logs: the whole file is rewritten; a failure
\* is printed and the file is left as it was
save_logs(log) ==
    c_file' = IF disk = "ok" THEN json_dump(log, CliKeys) ELSE c_file

\* an add_log_entry that takes the entry back when the save failed
add_log_entry_unsaved(gas_value) ==
    IF cli_delta_accept(c_last_gas, gas_value) /\ disk = "ok"
    THEN /\ c_log' = Append(c_log, [timestamp |-> Strftime(now),
                                     gas_value |-> gas_value])
         /\ save_logs(c_log')
         /\ c_last_gas' = Some(gas_value)
    ELSE UNCHANGED <<c_log, c_file, c_last_gas>>

\* an add_log_entry that compares with the last reading received
add_log_entry_last_received(gas_value) ==
    /\ IF cli_delta_accept(c_last_gas, gas_value)
       THEN /\ c_log' = Append(c_log, [timestamp |-> Strftime(now),
                                        gas_value |-> gas_value])
            /\ save_logs(c_log')
       ELSE UNCHANGED <<c_log, c_file>>
    /\ c_last_gas' = Some(gas_value)

\* GasMonitorController.add_log_entry
add_log_entry(gas_value) ==
    IF cli_delta_accept(c_last_gas, gas_value)
    THEN /\ c_log' = Append(c_log, [timestamp |-> Strftime(now),
                                     gas_value |-> gas_value])
         /\ save_logs(c_log')
         /\ c_last_gas' = Some(gas_value)
    ELSE UNCHANGED <<c_log, c_file, c_last_gas>>

\* a parse_arduino_data that stores each value as soon as it has read it
cli_parse_arduino_data_eager(data) ==
    LET parts == Split(data, ",") IN
    IF StartsWith(data, <<"GAS", ":">>) /\ ~ParseRaises(parts)
    THEN /\ c_status' = ParsedFields(parts)
         /\ add_log_entry(ParsedFields(parts).gas)
    ELSE IF /\ StartsWith(data, <<"GAS", ":">>)
            /\ ~NoValue(parts, 1) /\ IsInt(ValueOf(parts, 1))
         THEN /\ c_status' = [c_status EXCEPT !.gas = IntOf(ValueOf(parts, 1))]
              /\ UNCHANGED <<c_log, c_file, c_last_gas>>
         ELSE UNCHANGED <<c_status, c_log, c_file, c_last_gas>>

\* GasMonitorController.parse_arduino_data
cli_parse_arduino_data(data) ==
    IF StartsWith(data, <<"GAS", ":">>) /\ ~ParseRaises(Split(data, ","))
    THEN LET rec == ParsedFields(Split(data, ",")) IN
         /\ c_status' = rec
         /\ add_log_entry(rec.gas)
    ELSE UNCHANGED <<c_status, c_log, c_file, c_last_gas>>

\* the wire format of one telemetry line
Format(g, l, b, a, t) ==
    <<"GAS", ":">> \o StrOfInt(g) \o <<",", "LED", ":">> \o l
        \o <<",", "BUZZER", ":">> \o b \o <<",", "AUTO", ":">> \o a
        \o <<",", "THRESHOLD", ":">> \o StrOfInt(t)

ON == <<"ON">>
OFF == <<"OFF">>

\* what the device sends while a session is observed: two readings 5 apart,
\* one more than 10 away, and a line with a non-integer reading
WireLines ==
    {Format(100, OFF, OFF, ON, 400), Format(105, OFF, OFF, ON, 400),
     Format(410, ON, ON, ON, 400), <<"GAS", ":", "x", ",", "LED", ":", "ON">>}

MaxLog == 2
MaxTime == 1

max_attempts == 3

\* a command token such as LED_ON
Cmd(what, state) == <<what, "_", state>>

\* f"THRESHOLD_{value}"
ThresholdToken(v) == <<"THRESHOLD", "_">> \o StrOfInt(v)

\* what the user types at "Enter new threshold (1-1023)"
CliThresholdInputs == {-1, 0, 1, 400, 1023, 1024}

\* GasMonitorController.send_command: TRUE when the token was written
cli_send_command(command) ==
    IF c_conn = "open" THEN c_wire' = c_wire \cup {command}
    ELSE UNCHANGED c_wire

\* connect_serial, step 1: is the port listed at all
CliConnectSerial ==
    /\ CliFrame
    /\ c_pc = "start"
    /\ \E listed \in BOOLEAN : c_pc' = IF listed THEN "connect" ELSE "done"
    /\ UNCHANGED <<c_attempt, c_trace, c_conn, c_running, cliData, c_wire, cm_pc,
                   cm_last, now>>

\* what one pass of the retry loop calls: force_close_port(), time.sleep(3),
\* serial.Serial(...), and in the except branch time.sleep(3) again unless
\* this was the last pass
PassCalls(opens, last) ==
    <<"force_close_port", "sleep">>
        \o (IF opens THEN <<"opened">> ELSE <<"raised">>)
        \o (IF ~opens /\ ~last THEN <<"sleep">> ELSE <<>>)

\* a retry loop that goes round again at once after a failed open
CliConnectAttemptNoBackoff ==
    /\ CliFrame
    /\ c_pc = "connect"
    /\ \E opens \in BOOLEAN :
         /\ c_trace' = c_trace \o PassCalls(opens, TRUE)
         /\ IF opens
            THEN /\ c_conn' = "open"
                 /\ c_running' = TRUE
                 /\ cm_pc' = "while"
                 /\ c_pc' = "menu"
                 /\ UNCHANGED c_attempt
            ELSE /\ c_attempt' = c_attempt + 1
                 /\ c_pc' = IF c_attempt + 1 < max_attempts
                            THEN "connect" ELSE "done"
                 /\ UNCHANGED <<c_conn, c_running, cm_pc>>
    /\ UNCHANGED <<cliData, c_wire, cm_last, now>>

\* connect_serial, one pass of the retry loop; on success start() goes on
\* to set running and start the monitor thread
CliConnectAttempt ==
    /\ CliFrame
    /\ c_pc = "connect"
    /\ \E opens \in BOOLEAN :
         /\ c_trace' =
               c_trace \o PassCalls(opens, c_attempt + 1 = max_attempts)
         /\ IF opens
            THEN /\ c_conn' = "open"
                 /\ c_running' = TRUE
                 /\ cm_pc' = "while"
                 /\ c_pc' = "menu"
                 /\ UNCHANGED c_attempt
            ELSE /\ c_attempt' = c_attempt + 1
                 /\ c_pc' = IF c_attempt + 1 < max_attempts
                            THEN "connect" ELSE "done"
                 /\ UNCHANGED <<c_conn, c_running, cm_pc>>
    /\ UNCHANGED <<cliData, c_wire, cm_last, now>>

\* monitor_serial: while self.running
CmWhile ==
    /\ CliFrame
    /\ cm_pc = "while"
    /\ cm_pc' = IF c_running THEN "is_open" ELSE "exited"
    /\ UNCHANGED <<c_pc, c_attempt, c_trace, c_conn, c_running, cliData, c_wire,
                   cm_last, now>>

\* monitor_serial: if self.serial_conn and self.serial_conn.is_open
CmIsOpen ==
    /\ CliFrame
    /\ cm_pc = "is_open"
    /\ cm_pc' = IF c_conn = "open" THEN "in_waiting" ELSE "while"
    /\ cm_last' = "none"
    /\ UNCHANGED <<c_pc, c_attempt, c_trace, c_conn, c_running, cliData, c_wire,
                   now>>

\* monitor_serial: in_waiting, readline().decode(), parse; any exception is
\* caught by the loop, which sleeps and goes round again
CmRead ==
    /\ CliFrame
    /\ cm_pc = "in_waiting"
    /\ cm_pc' = "while"
    /\ IF c_conn # "open"
       THEN cm_last' = "closed_handle" /\ UNCHANGED cliData
       ELSE \/ cm_last' = "nodata" /\ UNCHANGED cliData
            \/ cm_last' = "ioerror" /\ UNCHANGED cliData
            \/ cm_last' = "undecodable" /\ UNCHANGED cliData
            \/ /\ Len(c_log) < MaxLog
               /\ \E line \in WireLines :
                     /\ cm_last' = IF parse_arduino_data(line) = None
                                   THEN "malformed" ELSE "valid"
                     /\ cli_parse_arduino_data(line)
    /\ UNCHANGED <<c_pc, c_attempt, c_trace, c_conn, c_running, c_wire, now>>

\* set_threshold
CliSetThreshold ==
    /\ CliFrame
    /\ c_pc = "menu"
    /\ \E new_threshold \in CliThresholdInputs :
         IF 1 <= new_threshold /\ new_threshold <= 1023
         THEN cli_send_command(ThresholdToken(new_threshold))
         ELSE UNCHANGED c_wire
    /\ UNCHANGED <<c_pc, c_attempt, c_trace, c_conn, c_running, cliData, cm_pc,
                   cm_last, now>>

\* start, step 4: running = False, then close the port at once
CliShutdown ==
    /\ CliFrame
    /\ c_pc = "menu"
    /\ c_running' = FALSE
    /\ c_conn' = IF c_conn = "none" THEN "none" ELSE "closed"
    /\ c_pc' = "done"
    /\ UNCHANGED <<c_attempt, c_trace, cliData, c_wire, cm_pc, cm_last, now>>

\* the clock moves on
CliTick ==
    /\ CliFrame
    /\ now < MaxTime
    /\ now' = now + 1
    /\ UNCHANGED <<c_pc, c_attempt, c_trace, c_conn, c_running, cliData,
                   c_wire, cm_pc, cm_last>>

(***************************************************************************)
(* GUI supervisor: kode.py                                                 *)
(***************************************************************************)
MaxRecords == 2
MaxReq == 1
SaveEvery == 10
DemoStart == 200
DemoThreshold == 400

\* random.randint(-15, 20): the two extremes and two small moves
DemoChanges == {-15, 5, 20}

\* QInputDialog.getInt(..., 0, 1023, 1): values the spin box lets through
GuiThresholdInputs == {0, 1, 1023}

\* the event loop of the main thread is running
InEventLoop == g_pc \in {"idle", "dialog", "failbox"}

\* DemoDataThread() ... start()
NewDemoThread ==
    /\ g_demo_thread' = TRUE
    /\ gd_pc' = "while"
    /\ gd_running' = TRUE
    /\ gd_gas' = DemoStart
    /\ gd_last_gas' = DemoStart

\* SerialMonitorThread(self.serial_conn) ... start()
NewMonitorThread ==
    /\ g_monitor_thread' = TRUE
    /\ gm_pc' = "while"
    /\ gm_running' = TRUE
    /\ gm_conn' = "open"
    /\ gm_last_gas' = None
    /\ gm_last' = "none"

\* GasMonitorGUI.start_demo_mode; ret is where its caller goes on.  With an
\* old generator still alive the main thread blocks in wait()
start_demo_mode(ret) ==
    /\ g_demo_mode' = TRUE
    /\ g_connected' = FALSE
    /\ IF g_demo_thread /\ gd_pc # "exited"
       THEN /\ gd_running' = FALSE
            /\ g_pc' = "sdm_wait"
            /\ g_ret' = ret
            /\ UNCHANGED <<g_demo_thread, gd_pc, gd_gas, gd_last_gas>>
       ELSE /\ NewDemoThread
            /\ g_pc' = ret
            /\ UNCHANGED g_ret

\* start_demo_mode, after wait() has returned
SdmWaitDone ==
    /\ GuiFrame
    /\ g_pc = "sdm_wait"
    /\ gd_pc = "exited"
    /\ NewDemoThread
    /\ g_pc' = g_ret
    /\ UNCHANGED <<g_ret, g_conn, g_monitor_thread, g_demo_mode, g_connected,
                   g_status, guiStore, g_events, g_wire, g_ports, g_opens,
                   g_req, g_nemit, guiThreadsMon>>

\* GasMonitorGUI.attempt_initial_connection
AttemptInitialConnection ==
    /\ GuiFrame
    /\ g_pc = "init"
    /\ \E ports \in BOOLEAN, opens \in BOOLEAN :
         /\ g_ports' = ports
         /\ IF ~ports
            THEN /\ start_demo_mode("idle")
                 /\ UNCHANGED <<g_opens, g_conn, g_monitor_thread, guiThreadsMon>>
            ELSE /\ g_opens' = 1
                 /\ IF opens
                    THEN /\ g_conn' = "open"
                         /\ g_connected' = TRUE
                         /\ g_demo_mode' = FALSE
                         /\ NewMonitorThread
                         /\ g_pc' = "idle"
                         /\ UNCHANGED <<g_ret, g_demo_thread, guiThreadsDemo>>
                    ELSE /\ start_demo_mode("idle")
                         /\ UNCHANGED <<g_conn, g_monitor_thread, guiThreadsMon>>
    /\ UNCHANGED <<g_status, guiStore, g_events, g_wire, g_req, g_nemit>>

\* attempt_reconnect, the Reconnect button: stop the monitor thread and
\* block in wait()
AttemptReconnect ==
    /\ GuiFrame
    /\ g_pc = "idle"
    /\ g_events = <<>>
    /\ gm_running' = IF g_monitor_thread THEN FALSE ELSE gm_running
    /\ g_pc' = "ar_wait_mon"
    /\ UNCHANGED <<g_ret, g_conn, g_monitor_thread, g_demo_thread, g_demo_mode,
                   g_connected, g_status, guiStore, g_events, g_wire, g_ports,
                   g_opens, g_req, g_nemit, gm_pc, gm_conn,
                   gm_last_gas, gm_last, guiThreadsDemo>>

\* attempt_reconnect: the monitor thread has ended; stop the generator and
\* block in wait()
ReconnectStopDemo ==
    /\ GuiFrame
    /\ g_pc = "ar_wait_mon"
    /\ g_monitor_thread => gm_pc = "exited"
    /\ g_monitor_thread' = FALSE
    /\ gd_running' = IF g_demo_thread THEN FALSE ELSE gd_running
    /\ g_pc' = "ar_wait_demo"
    /\ UNCHANGED <<g_ret, g_conn, g_demo_thread, g_demo_mode, g_connected,
                   g_status, guiStore, g_events, g_wire, g_ports, g_opens,
                   g_req, g_nemit, guiThreadsMon, gd_pc, gd_gas,
                   gd_last_gas>>

\* attempt_reconnect: both threads have ended; close the old port, scan the
\* ports and open the port dialog, or fall back when no port is listed
ReconnectScan ==
    /\ GuiFrame
    /\ g_pc = "ar_wait_demo"
    /\ g_demo_thread => gd_pc = "exited"
    /\ g_conn' = IF g_conn = "open" THEN "closed" ELSE g_conn
    /\ gm_conn' = IF g_conn = "open" THEN "closed" ELSE gm_conn
    /\ g_opens' = 0
    /\ \E ports \in BOOLEAN :
         /\ g_ports' = ports
         /\ IF ports
            THEN /\ g_pc' = "dialog"
                 /\ g_demo_thread' = FALSE
                 /\ UNCHANGED <<g_ret, g_demo_mode, g_connected, guiThreadsDemo>>
            ELSE start_demo_mode("idle")
    /\ UNCHANGED <<g_monitor_thread, g_status, guiStore, g_events, g_wire,
                   g_req, g_nemit, gm_pc, gm_running, gm_last_gas,
                   gm_last>>

\* attempt_reconnect: the user cancels the port dialog
DialogCancel ==
    /\ GuiFrame
    /\ g_pc = "dialog"
    /\ g_events = <<>>
    /\ g_pc' = "idle"
    /\ UNCHANGED <<g_ret, g_conn, g_monitor_thread, g_demo_thread, g_demo_mode,
                   g_connected, g_status, guiStore, g_events, g_wire, g_ports,
                   g_opens, g_req, g_nemit, guiThreadsMon,
                   guiThreadsDemo>>

\* attempt_reconnect: the user picks a port; serial.Serial() opens it or
\* raises, and then the warning box is shown
DialogOk ==
    /\ GuiFrame
    /\ g_pc = "dialog"
    /\ g_events = <<>>
    /\ g_opens' = g_opens + 1
    /\ \E opens \in BOOLEAN :
         IF opens
         THEN /\ g_conn' = "open"
              /\ g_connected' = TRUE
              /\ g_demo_mode' = FALSE
              /\ NewMonitorThread
              /\ g_pc' = "idle"
         ELSE /\ g_pc' = "failbox"
              /\ UNCHANGED <<g_conn, g_connected, g_demo_mode,
                             g_monitor_thread, guiThreadsMon>>
    /\ UNCHANGED <<g_ret, g_demo_thread, g_status, guiStore, g_events, g_wire,
                   g_ports, g_req, g_nemit, guiThreadsDemo>>

\* attempt_reconnect: the warning box is dismissed, fall back to demo
FailboxDismiss ==
    /\ GuiFrame
    /\ g_pc = "failbox"
    /\ g_events = <<>>
    /\ start_demo_mode("idle")
    /\ UNCHANGED <<g_conn, g_monitor_thread, g_status, guiStore, g_events,
                   g_wire, g_ports, g_opens, g_req, g_nemit,
                   guiThreadsMon>>

\* the mouse click on the Reconnect button, as it waits in the event queue
\* of the GUI thread
ReconnectClicked == <<"reconnectClicked">>

\* the user clicks Reconnect while attempt_reconnect blocks the GUI thread
\* in a wait(): the click is queued behind the events already there
ReconnectClick ==
    /\ GuiFrame
    /\ g_pc \in {"ar_wait_mon", "ar_wait_demo"}
    /\ \A i \in 1..Len(g_events) : g_events[i] # ReconnectClicked
    /\ g_events' = Append(g_events, ReconnectClicked)
    /\ UNCHANGED <<g_pc, g_ret, g_conn, g_monitor_thread, g_demo_thread,
                   g_demo_mode, g_connected, g_status, guiStore, g_wire,
                   g_ports, g_opens, g_req, g_nemit, guiThreadsMon,
                   guiThreadsDemo>>

\* the top-level event loop delivers the queued click to the button:
\* reconnect_btn.clicked calls attempt_reconnect
ClickedReconnect ==
    /\ GuiFrame
    /\ g_pc = "idle"
    /\ g_events # <<>>
    /\ Head(g_events) = ReconnectClicked
    /\ g_events' = Tail(g_events)
    /\ gm_running' = IF g_monitor_thread THEN FALSE ELSE gm_running
    /\ g_pc' = "ar_wait_mon"
    /\ UNCHANGED <<g_ret, g_conn, g_monitor_thread, g_demo_thread, g_demo_mode,
                   g_connected, g_status, guiStore, g_wire, g_ports,
                   g_opens, g_req, g_nemit, gm_pc, gm_conn,
                   gm_last_gas, gm_last, guiThreadsDemo>>

\* the event loop of a modal dialog meets the queued click: the main
\* window is blocked by the dialog and the click is dropped
DiscardClick ==
    /\ GuiFrame
    /\ g_pc \in {"dialog", "failbox"}
    /\ g_events # <<>>
    /\ Head(g_events) = ReconnectClicked
    /\ g_events' = Tail(g_events)
    /\ UNCHANGED <<g_pc, g_ret, g_conn, g_monitor_thread, g_demo_thread,
                   g_demo_mode, g_connected, g_status, guiStore, g_wire,
                   g_ports, g_opens, g_req, g_nemit, guiThreadsMon,
                   guiThreadsDemo>>

\* GasMonitorGUI.handle_connection_lost; ret is the event loop it runs in
handle_connection_lost(ret) ==
    /\ g_monitor_thread' = FALSE
    /\ gm_running' = IF g_monitor_thread THEN FALSE ELSE gm_running
    /\ g_conn' = "none"
    /\ gm_conn' = IF g_conn = "none" THEN gm_conn ELSE "closed"
    /\ start_demo_mode(ret)

\* GasMonitorGUI.check_connection, on the 5 second timer
check_connection ==
    /\ InEventLoop
    /\ IF ~g_demo_mode /\ g_conn = "closed"
       THEN handle_connection_lost(g_pc)
       ELSE UNCHANGED <<g_pc, g_ret, g_conn, g_monitor_thread, g_demo_thread,
                        g_demo_mode, g_connected, gm_running, gm_conn,
                        guiThreadsDemo>>
    /\ UNCHANGED <<g_status, guiStore, g_events, g_wire, g_ports, g_opens,
                   g_req, g_nemit, gm_pc, gm_last_gas, gm_last>>

\* the timer fires with the device answering
CheckConnection == GuiFrame /\ check_connection

\* the device goes silent (powered off or hung behind an adapter that stays
\* plugged in): the port stays open and no call on it raises
LinkDrops ==
    /\ g_conn = "open" /\ ~g_demo_mode
    /\ g_link = "up"
    /\ g_link' = "down"
    /\ UNCHANGED <<parseVars, filterVars, raceVars, cliVars, guiVars, disk, s_who,
                   s_pc, s_op, s_removed, s_cut>>

\* the timer fires; the run of check_connection is noted when it finds the
\* program connected to a device that has gone silent
TimerCheckConnection ==
    /\ check_connection
    /\ g_link' = IF g_link = "down" /\ ~g_demo_mode /\ g_conn = "open"
                 THEN "checked" ELSE g_link
    /\ UNCHANGED <<parseVars, filterVars, raceVars, cliVars, disk, s_who, s_pc, s_op,
                   s_removed, s_cut>>

\* GasMonitorGUI.save_log_to_file: the whole file is rewritten; a failure
\* is printed and the file is left as it was
save_log_to_file(log) ==
    g_file' = IF disk = "ok" THEN json_dump(log, GuiKeys) ELSE g_file

\* the entry handle_serial_data appends for a record stamped at day t
LogEntry(data, t) ==
    [timestamp |-> Strftime(t), gas |-> data.gas, led |-> data.led,
     buzzer |-> data.buzzer, auto |-> data.auto, threshold |-> data.threshold]

\* a handle_serial_data that leaves every save to the prune
handle_serial_data_nosave(data, timestamp) ==
    /\ g_status' = data
    /\ g_log' = Append(g_log, LogEntry(data, timestamp))
    /\ UNCHANGED g_file

\* GasMonitorGUI.handle_serial_data; timestamp is data['timestamp']
handle_serial_data(data, timestamp) ==
    /\ g_status' = data
    /\ g_log' = Append(g_log, LogEntry(data, timestamp))
    /\ IF Len(g_log') % SaveEvery = 0
       THEN save_log_to_file(g_log')
       ELSE UNCHANGED g_file

\* the event loop delivers the oldest queued signal: connectionLost to
\* handle_connection_lost, dataReceived to handle_serial_data
DeliverSignal ==
    /\ GuiFrame
    /\ InEventLoop
    /\ g_events # <<>>
    /\ Head(g_events) # ReconnectClicked
    /\ g_events' = Tail(g_events)
    /\ IF Head(g_events) = <<"connectionLost">>
       THEN /\ handle_connection_lost(g_pc)
            /\ UNCHANGED <<g_status, guiStore>>
       ELSE /\ handle_serial_data(Head(g_events)[2], Head(g_events)[3])
            /\ UNCHANGED <<g_pc, g_ret, g_conn, g_monitor_thread,
                           g_demo_thread, g_demo_mode, g_connected, gm_running,
                           gm_conn, guiThreadsDemo>>
    /\ UNCHANGED <<g_wire, g_ports, g_opens, g_req, g_nemit, gm_pc,
                   gm_last_gas, gm_last>>

\* SerialMonitorThread.run: while self.running
GmWhile ==
    /\ GuiFrame
    /\ gm_pc = "while"
    /\ gm_pc' = IF gm_running THEN "is_open" ELSE "exited"
    /\ UNCHANGED <<guiMain, g_events, g_nemit, gm_running, gm_conn,
                   gm_last_gas, gm_last, guiThreadsDemo>>

\* SerialMonitorThread.run: if self.serial_conn and self.serial_conn.is_open
GmIsOpen ==
    /\ GuiFrame
    /\ gm_pc = "is_open"
    /\ gm_pc' = IF gm_conn = "open" THEN "in_waiting" ELSE "while"
    /\ gm_last' = "none"
    /\ UNCHANGED <<guiMain, g_events, g_nemit, gm_running, gm_conn,
                   gm_last_gas, guiThreadsDemo>>

\* except Exception: connectionLost.emit(); break
GmRaise(what) ==
    /\ gm_last' = what
    /\ g_events' = Append(g_events, <<"connectionLost">>)
    /\ gm_pc' = "exited"
    /\ UNCHANGED <<g_nemit, gm_last_gas>>

\* the line read is parsed, filtered and emitted as dataReceived
GmLine(line) ==
    LET parsed_data == parse_arduino_data(line) IN
    /\ gm_pc' = "while"
    /\ IF parsed_data = None
       THEN gm_last' = "malformed" /\ UNCHANGED <<g_events, g_nemit, gm_last_gas>>
       ELSE /\ gm_last' = "valid"
            /\ IF should_log_data(gm_last_gas, parsed_data[1].gas)
               THEN /\ g_events' = Append(g_events, <<"dataReceived", parsed_data[1], now>>)
                    /\ g_nemit' = g_nemit + 1
                    /\ gm_last_gas' = Some(parsed_data[1].gas)
               ELSE UNCHANGED <<g_events, g_nemit, gm_last_gas>>

\* SerialMonitorThread.run: in_waiting, readline().decode().strip(), parse,
\* filter, emit; every exception ends the loop with connectionLost
GmRead ==
    /\ GuiFrame
    /\ gm_pc = "in_waiting"
    /\ IF gm_conn # "open"
       THEN GmRaise("closed_handle")
       ELSE \/ /\ gm_last' = "nodata"
               /\ gm_pc' = "while"
               /\ UNCHANGED <<g_events, g_nemit, gm_last_gas>>
            \/ GmRaise("ioerror")
            \/ GmRaise("undecodable")
            \/ /\ g_nemit < MaxRecords
               /\ \E line \in WireLines : GmLine(line)
    /\ UNCHANGED <<guiMain, gm_running, gm_conn, guiThreadsDemo>>

\* the read loop's in_waiting while the device answers
GmReadLive == g_link = "up" /\ GmRead

\* the read loop's in_waiting on a silent device: 0 bytes, nothing raised
GmReadSilent ==
    /\ GuiFrame
    /\ g_link # "up"
    /\ gm_pc = "in_waiting"
    /\ gm_conn = "open"
    /\ gm_last' = "nodata"
    /\ gm_pc' = "while"
    /\ UNCHANGED <<guiMain, g_events, g_nemit, gm_running, gm_conn,
                   gm_last_gas, guiThreadsDemo>>

\* the record DemoDataThread.run builds
DemoData(gas) ==
    [gas       |-> gas,
     led       |-> IF gas > DemoThreshold THEN ON ELSE OFF,
     buzzer    |-> IF gas > DemoThreshold THEN ON ELSE OFF,
     auto      |-> ON,
     threshold |-> DemoThreshold]

\* a walk that is let out of the sensor's range
Unclamped(x) == x

\* max(0, min(1023, x))
Clamp(x) == IF x < 0 THEN 0 ELSE IF x > 1023 THEN 1023 ELSE x

\* DemoDataThread.run: one pass of the loop
GdIter ==
    /\ GuiFrame
    /\ gd_pc = "while"
    /\ gd_running
    /\ g_nemit < MaxRecords
    /\ \E change \in DemoChanges :
         /\ gd_gas' = Clamp(gd_gas + change)
         /\ IF Abs(gd_gas' - gd_last_gas) >= MinDelta
            THEN /\ g_events' = Append(g_events, <<"dataReceived", DemoData(gd_gas'), now>>)
                 /\ gd_last_gas' = gd_gas'
                 /\ g_nemit' = g_nemit + 1
            ELSE UNCHANGED <<g_events, gd_last_gas, g_nemit>>
    /\ UNCHANGED <<guiMain, guiThreadsMon, gd_pc, gd_running>>

\* DemoDataThread.run: while self.running is false
GdExit ==
    /\ GuiFrame
    /\ gd_pc = "while"
    /\ ~gd_running
    /\ gd_pc' = "exited"
    /\ UNCHANGED <<guiMain, g_events, g_nemit, guiThreadsMon,
                   gd_running, gd_gas, gd_last_gas>>

\* GasMonitorGUI.send_command
send_command(command) ==
    IF g_demo_mode
    THEN /\ g_status' =
              IF command = Cmd("LED", "ON") THEN [g_status EXCEPT !.led = ON]
              ELSE IF command = Cmd("LED", "OFF") THEN [g_status EXCEPT !.led = OFF]
              ELSE IF command = Cmd("BUZZER", "ON") THEN [g_status EXCEPT !.buzzer = ON]
              ELSE IF command = Cmd("BUZZER", "OFF") THEN [g_status EXCEPT !.buzzer = OFF]
              ELSE IF StartsWith(command, <<"THRESHOLD">>)
                   THEN [g_status EXCEPT !.threshold = IntOf(Split(command, "_")[2])]
              ELSE IF command = Cmd("AUTO", "ON") THEN [g_status EXCEPT !.auto = ON]
              ELSE IF command = Cmd("AUTO", "OFF") THEN [g_status EXCEPT !.auto = OFF]
              ELSE g_status
         /\ UNCHANGED g_wire
    ELSE /\ g_wire' = IF g_conn = "open" THEN g_wire \cup {command} ELSE g_wire
         /\ UNCHANGED g_status

\* GasMonitorGUI.set_threshold_popup, the user presses OK
SetThresholdPopup ==
    /\ GuiFrame
    /\ g_pc = "idle"
    /\ g_events = <<>>
    /\ g_req.n < MaxReq
    /\ \E value \in GuiThresholdInputs :
         /\ g_req' = [n |-> g_req.n + 1, value |-> value]
         /\ send_command(ThresholdToken(value))
    /\ UNCHANGED <<g_pc, g_ret, g_conn, g_monitor_thread, g_demo_thread,
                   g_demo_mode, g_connected, guiStore, g_events, g_ports,
                   g_opens, g_nemit, guiThreadsMon, guiThreadsDemo>>

(***************************************************************************)
(* Codec and filter harnesses: one input, handed to both programs          *)
(***************************************************************************)
Field(name, value) == <<name, ":">> \o value

\* ",".join(fields)
RECURSIVE Join(_)
Join(fields) ==
    IF Len(fields) = 0 THEN <<>>
    ELSE IF Len(fields) = 1 THEN fields[1]
    ELSE fields[1] \o <<",">> \o Join(Tail(fields))

OnOff == {ON, OFF}
GasSamples == {-5, 0, 7, 523, 1023}
ThresholdSamples == {1, 400, 1023}

ValidLines ==
    {Format(g, l, b, a, t) :
        g \in GasSamples, l \in OnOff, b \in OnOff, a \in OnOff,
        t \in ThresholdSamples}

\* the five fields of a well-formed line, to be damaged one at a time
BaseFields(g, l, t) ==
    <<Field("GAS", StrOfInt(g)), Field("LED", l), Field("BUZZER", OFF),
      Field("AUTO", ON), Field("THRESHOLD", StrOfInt(t))>>

Damaged(f) ==
    {Join(SubSeq(f, 1, 4)),
     Join(SubSeq(f, 1, 1)),
     Join(f \o <<Field("EXTRA", <<"1">>)>>),
     Join([f EXCEPT ![1] = Field("GAS", <<"x">>)]),
     Join([f EXCEPT ![1] = Field("GAS", <<"5", ".", "5">>)]),
     Join([f EXCEPT ![1] = <<"GAS">>]),
     Join([f EXCEPT ![5] = Field("THRESHOLD", <<"x">>)]),
     Join([f EXCEPT ![5] = Field("THRESHOLD", <<>>)]),
     Join([f EXCEPT ![2] = Field("FOO", ON)]),
     Join([f EXCEPT ![5] = Field("LIMIT", <<"4">>)]),
     Join([f EXCEPT ![2] = Field("LED", <<"MAYBE">>)]),
     Join([f EXCEPT ![4] = Field("AUTO", <<>>)]),
     Join([f EXCEPT ![3] = <<"BUZZER">>]),
     Join([f EXCEPT ![1] = Field("NOTGAS", <<"1">>)]),
     Join(Tail(f)),
     <<>>}

DamagedLines ==
    UNION {Damaged(BaseFields(g, l, t)) :
              g \in {7, 523}, l \in OnOff, t \in {1, 400}}

ParseLines == ValidLines \cup DamagedLines

FilterSpan == 12
FilterRange == (100 - FilterSpan)..(100 + FilterSpan)

\* the codec harness before it is given a line
ParseIdle == p_pc = "off" /\ p_line = <<>> /\ p_out = None

(***************************************************************************)
(* Retention store: load, append, prune and save of both programs          *)
(***************************************************************************)
\* cleanup_old_logs keeps the entry: its timestamp parses and is not
\* before the cutoff
CliKeep(e) ==
    /\ "timestamp" \in DOMAIN e
    /\ StrptimeOk(e.timestamp)
    /\ Strptime(e.timestamp) >= now - RetentionDays

\* a cleanup_old_logs that hands the kept entries back newest first
cleanup_old_logs_reversed(log) ==
    LET kept == SelectSeq(log, CliKeep) IN
    /\ c_log' = [i \in 1..Len(kept) |-> kept[Len(kept) + 1 - i]]
    /\ s_removed' = Len(log) - Len(c_log')
    /\ s_cut' = <<now - RetentionDays>>
    /\ IF s_removed' > 0 THEN save_logs(c_log') ELSE UNCHANGED c_file

\* GasMonitorController.cleanup_old_logs on the list held in log_data
cleanup_old_logs(log) ==
    /\ c_log' = SelectSeq(log, CliKeep)
    /\ s_removed' = Len(log) - Len(c_log')
    /\ s_cut' = <<now - RetentionDays>>
    /\ IF s_removed' > 0 THEN save_logs(c_log') ELSE UNCHANGED c_file

\* GasMonitorController.setup_logging
cli_setup_logging ==
    IF FileExists(c_file)
    THEN IF LoadOk(c_file)
         THEN cleanup_old_logs(json_load(c_file))
         ELSE c_log' = <<>> /\ UNCHANGED <<c_file, s_removed, s_cut>>
    ELSE UNCHANGED <<c_log, c_file, s_removed, s_cut>>

\* GasMonitorGUI.setup_logging
gui_setup_logging ==
    /\ g_log' = IF FileExists(g_file) /\ LoadOk(g_file)
                THEN json_load(g_file) ELSE <<>>
    /\ UNCHANGED g_file

\* confirm_clean_log deletes the entry: its date lies in the range
InRange(e, from_date, to_date) ==
    from_date <= Strptime(e.timestamp) /\ Strptime(e.timestamp) <= to_date

\* confirm_clean_log that also drops the oldest entry it should keep
confirm_clean_log_extra(from_date, to_date) ==
    LET Kept(e) == ~InRange(e, from_date, to_date)
        rest == SelectSeq(g_log, Kept) IN
    /\ g_log' = IF rest = <<>> THEN rest ELSE Tail(rest)
    /\ s_removed' = Len(g_log) - Len(g_log')
    /\ s_cut' = <<from_date, to_date>>
    /\ save_log_to_file(g_log')

\* GasMonitorGUI.confirm_clean_log once both dates are entered
confirm_clean_log(from_date, to_date) ==
    LET Kept(e) == ~InRange(e, from_date, to_date) IN
    /\ g_log' = SelectSeq(g_log, Kept)
    /\ s_removed' = Len(g_log) - Len(g_log')
    /\ s_cut' = <<from_date, to_date>>
    /\ save_log_to_file(g_log')

\* appends stop at this many entries
MaxStore == 11

\* the day the scenario starts
StoreDay == 40

\* telemetry lines of the scenario: two readings 20 apart
StoreLines ==
    {Format(100, OFF, OFF, ON, 400), Format(120, OFF, OFF, ON, 400)}

\* the reading the GUI's read loop passes on in the scenario
StoreRecord == parse_arduino_data(Format(100, OFF, OFF, ON, 400))[1]

\* dates the user types into the clean-log dialogs
StoreDates == {10, StoreDay}

\* the scenario runs over midnight once
StoreLastDay == StoreDay + 1

\* the store's part of a step of the console controller
CliStoreFrame ==
    UNCHANGED <<parseVars, filterVars, raceVars, guiVars, c_pc, c_attempt, c_trace, c_conn,
                c_running, c_wire, cm_pc, cm_last, now, disk, s_who, s_pc,
                g_link>>

\* the store's part of a step of the GUI
GuiStoreFrame ==
    UNCHANGED <<parseVars, filterVars, raceVars, cliVars, g_pc, g_ret, g_conn,
                g_monitor_thread, g_demo_thread, g_demo_mode, g_connected,
                g_wire, g_ports, g_opens, g_req, g_events, g_nemit,
                guiThreadsMon, guiThreadsDemo, disk, s_who, s_pc,
                g_link>>

\* console controller, __init__: setup_logging
StoreCliLoad ==
    /\ s_who = "cli" /\ s_pc = "boot"
    /\ cli_setup_logging
    /\ s_pc' = "run" /\ s_op' = "load"
    /\ UNCHANGED <<parseVars, filterVars, raceVars, guiVars, c_pc, c_attempt, c_trace, c_conn,
                   c_running, c_wire, cm_pc, cm_last, now, disk, s_who, g_link,
                   c_status, c_last_gas>>

\* console controller: the read loop hands one line to parse_arduino_data
StoreCliAppend ==
    /\ s_who = "cli" /\ s_pc = "run" /\ Len(c_log) < MaxStore
    /\ \E line \in StoreLines : cli_parse_arduino_data(line)
    /\ s_op' = IF c_log' = c_log THEN "reading" ELSE "append"
    /\ s_removed' = 0 /\ s_cut' = <<>>
    /\ CliStoreFrame

\* console controller: settings menu, "Clean Old Logs"
StoreCliPrune ==
    /\ s_who = "cli" /\ s_pc = "run"
    /\ cleanup_old_logs(c_log)
    /\ s_op' = "prune"
    /\ CliStoreFrame
    /\ UNCHANGED <<c_status, c_last_gas>>

\* GUI, __init__: setup_logging
StoreGuiLoad ==
    /\ s_who = "gui" /\ s_pc = "boot"
    /\ gui_setup_logging
    /\ s_pc' = "run" /\ s_op' = "load"
    /\ UNCHANGED <<parseVars, filterVars, raceVars, cliVars, g_pc, g_ret, g_conn,
                   g_monitor_thread, g_demo_thread, g_demo_mode, g_connected,
                   g_wire, g_ports, g_opens, g_req, g_events, g_nemit,
                   guiThreadsMon, guiThreadsDemo, disk, s_who, g_link, g_status,
                   s_removed, s_cut>>

\* GUI: a dataReceived signal reaches handle_serial_data
StoreGuiAppend ==
    /\ s_who = "gui" /\ s_pc = "run" /\ Len(g_log) < MaxStore
    /\ handle_serial_data(StoreRecord, now)
    /\ s_op' = "append"
    /\ s_removed' = 0 /\ s_cut' = <<>>
    /\ GuiStoreFrame

\* GUI: the Clean Log button, confirmed, with both dates entered
StoreGuiPrune ==
    /\ s_who = "gui" /\ s_pc = "run"
    /\ \E from_date \in StoreDates, to_date \in StoreDates :
          confirm_clean_log(from_date, to_date)
    /\ s_op' = "prune"
    /\ GuiStoreFrame
    /\ UNCHANGED g_status

\* a day passes
StoreTick ==
    /\ s_pc = "run"
    /\ now < StoreLastDay
    /\ now' = now + 1
    /\ UNCHANGED <<parseVars, filterVars, raceVars, guiVars, c_pc, c_attempt, c_trace, c_conn,
                   c_running, cliData, c_wire, cm_pc, cm_last, storeVars>>

\* the disk starts failing (read-only, file locked: open raises); the
\* scenario lets that happen at start-up or right after the log was loaded
StoreDiskFails ==
    /\ s_pc = "run" /\ s_op = "load"
    /\ disk = "ok"
    /\ disk' = "failing"
    /\ UNCHANGED <<parseVars, filterVars, raceVars, guiVars, c_pc, c_attempt, c_trace, c_conn,
                   c_running, cliData, c_wire, cm_pc, cm_last, now, s_who, g_link,
                   s_pc, s_op, s_removed, s_cut>>

\* the disk works again
StoreDiskMends ==
    /\ s_pc \in {"boot", "run"}
    /\ disk = "failing"
    /\ disk' = "ok"
    /\ UNCHANGED <<parseVars, filterVars, raceVars, guiVars, c_pc, c_attempt, c_trace, c_conn,
                   c_running, cliData, c_wire, cm_pc, cm_last, now, s_who, g_link,
                   s_pc, s_op, s_removed, s_cut>>

\* ---- log files found on disk at start-up
CliEntry(t, g) == [timestamp |-> Strftime(t), gas_value |-> g]

GuiEntry(t, g) ==
    [timestamp |-> Strftime(t), gas |-> g, led |-> OFF, buzzer |-> OFF,
     auto |-> ON, threshold |-> 400]

\* a file whose write was cut short
Truncated(text) == SubSeq(text, 1, Len(text) - 3)

CliLogs ==
    {<<>>, <<CliEntry(9, 100), CliEntry(10, 120), CliEntry(StoreDay, 100)>>,
     <<CliEntry(10, 100)>>}

GuiLogs ==
    {<<>>, <<GuiEntry(9, 100), GuiEntry(10, 120), GuiEntry(StoreDay, 100)>>,
     <<GuiEntry(10, 100)>>}

CliFiles ==
    {None} \cup {json_dump(l, CliKeys) : l \in CliLogs}
        \cup {Truncated(json_dump(l, CliKeys)) : l \in CliLogs \ {<<>>}}

GuiFiles ==
    {None} \cup {json_dump(l, GuiKeys) : l \in GuiLogs}
        \cup {Truncated(json_dump(l, GuiKeys)) : l \in GuiLogs \ {<<>>}}

\* no store scenario is running
StoreIdle ==
    /\ s_who = "cli" /\ s_pc = "off" /\ s_op = "none"
    /\ s_removed = 0 /\ s_cut = <<>>

\* no cleanup_old_logs and no add_log_entry has been entered
RaceIdle ==
    valid_logs = <<>> /\ for_i = 0 /\ original_count = 0 /\ log_entry = None

\* the filter harness before it is given a pair
FilterIdle ==
    f_pc = "off" /\ f_prev = None /\ f_cur = 0 /\ f_gui = FALSE /\ f_cli = FALSE

\* GasMonitorController.__init__ before setup_logging
CliStart ==
    /\ c_pc = "start"
    /\ c_attempt = 0
    /\ c_trace = <<>>
    /\ c_conn = "none"
    /\ c_running = FALSE
    /\ c_status = InitStatus
    /\ c_log = <<>>
    /\ c_last_gas = None
    /\ c_wire = {}
    /\ cm_pc = "idle"
    /\ cm_last = "none"

\* GasMonitorController.__init__, no log file on disk
CliInit == CliStart /\ c_file = None /\ now = 0 /\ disk = "ok"

\* GasMonitorGUI.__init__ before setup_logging
GuiStart ==
    /\ g_pc = "init"
    /\ g_ret = "idle"
    /\ g_conn = "none"
    /\ g_monitor_thread = FALSE
    /\ g_demo_thread = FALSE
    /\ g_demo_mode = FALSE
    /\ g_connected = FALSE
    /\ g_status = InitStatus
    /\ g_log = <<>>
    /\ g_events = <<>>
    /\ g_wire = {}
    /\ g_ports = FALSE
    /\ g_opens = 0
    /\ g_req = [n |-> 0, value |-> 400]
    /\ g_nemit = 0
    /\ gm_pc = "idle"
    /\ gm_running = FALSE
    /\ gm_conn = "closed"
    /\ gm_last_gas = None
    /\ gm_last = "none"
    /\ gd_pc = "idle"
    /\ gd_running = FALSE
    /\ gd_gas = DemoStart
    /\ gd_last_gas = DemoStart
    /\ g_link = "up"

\* GasMonitorGUI.__init__ up to the call of attempt_initial_connection, no
\* log file on disk
GuiInit == GuiStart /\ g_file = None

\* ---- the GUI supervisor and its two threads
Init == ParseIdle /\ FilterIdle /\ CliInit /\ GuiInit /\ StoreIdle /\ RaceIdle

Next ==
    \/ AttemptInitialConnection
    \/ AttemptReconnect
    \/ ReconnectStopDemo
    \/ ReconnectScan
    \/ DialogCancel
    \/ DialogOk
    \/ FailboxDismiss
    \/ SdmWaitDone
    \/ CheckConnection
    \/ DeliverSignal
    \/ SetThresholdPopup
    \/ GmWhile
    \/ GmIsOpen
    \/ GmRead
    \/ GdIter
    \/ GdExit

Spec == Init /\ [][Next]_vars

\* ---- the GUI supervisor, its timer and a device that can go silent
HealthNext ==
    \/ AttemptInitialConnection
    \/ LinkDrops
    \/ TimerCheckConnection
    \/ DeliverSignal
    \/ GmWhile
    \/ GmIsOpen
    \/ GmReadLive
    \/ GmReadSilent
    \/ GdIter

SpecHealth == Init /\ [][HealthNext]_vars

\* ---- the GUI supervisor with an impatient user at the Reconnect button
ClickNext ==
    \/ AttemptInitialConnection
    \/ AttemptReconnect
    \/ ReconnectStopDemo
    \/ ReconnectScan
    \/ DialogCancel
    \/ DialogOk
    \/ FailboxDismiss
    \/ ReconnectClick
    \/ ClickedReconnect
    \/ DiscardClick
    \/ DeliverSignal
    \/ GmWhile
    \/ GmIsOpen
    \/ GmRead
    \/ GdIter
    \/ GdExit

SpecClick == Init /\ [][ClickNext]_vars

\* ---- the console controller and its monitor thread
CliNext ==
    \/ CliConnectSerial
    \/ CliConnectAttempt
    \/ CmWhile
    \/ CmIsOpen
    \/ CmRead
    \/ CliSetThreshold
    \/ CliShutdown
    \/ CliTick

SpecCLI == Init /\ [][CliNext]_vars

\* ---- one line through both parsers
ParseGui ==
    /\ p_pc = "input"
    /\ p_out' = parse_arduino_data(p_line)
    /\ p_pc' = "gui"
    /\ UNCHANGED <<p_line, filterVars, raceVars, cliVars, guiVars, storeVars>>

ParseCli ==
    /\ p_pc = "gui"
    /\ cli_parse_arduino_data(p_line)
    /\ p_pc' = "done"
    /\ UNCHANGED <<p_line, p_out, filterVars, raceVars, c_pc, c_attempt, c_trace, c_conn,
                   c_running, c_wire, cm_pc, cm_last, now, guiVars, storeVars>>

ParseInit ==
    /\ p_pc = "input"
    /\ p_line \in ParseLines
    /\ p_out = None
    /\ FilterIdle /\ CliInit /\ GuiInit /\ StoreIdle /\ RaceIdle

ParseNext == ParseGui \/ ParseCli

SpecParse == ParseInit /\ [][ParseNext]_vars

\* ---- one pair through both delta filters
FilterGui ==
    /\ f_pc = "input"
    /\ f_gui' = should_log_data(f_prev, f_cur)
    /\ f_pc' = "gui"
    /\ UNCHANGED <<f_prev, f_cur, f_cli, parseVars, raceVars, cliVars, guiVars,
                   storeVars>>

FilterCli ==
    /\ f_pc = "gui"
    /\ f_cli' = cli_delta_accept(f_prev, f_cur)
    /\ f_pc' = "done"
    /\ UNCHANGED <<f_prev, f_cur, f_gui, parseVars, raceVars, cliVars, guiVars,
                   storeVars>>

FilterInit ==
    /\ f_pc = "input"
    /\ f_prev \in {None} \cup {Some(v) : v \in FilterRange}
    /\ f_cur \in FilterRange
    /\ f_gui = FALSE
    /\ f_cli = FALSE
    /\ ParseIdle /\ CliInit /\ GuiInit /\ StoreIdle /\ RaceIdle

FilterNext == FilterGui \/ FilterCli

SpecFilter == FilterInit /\ [][FilterNext]_vars

\* ---- the retention store of one of the two programs, from start-up
StoreInit ==
    /\ ParseIdle /\ FilterIdle /\ CliStart /\ GuiStart /\ RaceIdle
    /\ s_who \in {"cli", "gui"}
    /\ s_pc = "boot" /\ s_op = "none"
    /\ s_removed = 0 /\ s_cut = <<>>
    /\ disk \in {"ok", "failing"}
    /\ now = StoreDay
    /\ c_file \in IF s_who = "cli" THEN CliFiles ELSE {None}
    /\ g_file \in IF s_who = "gui" THEN GuiFiles ELSE {None}

StoreNext ==
    \/ StoreCliLoad
    \/ StoreCliAppend
    \/ StoreCliPrune
    \/ StoreGuiLoad
    \/ StoreGuiAppend
    \/ StoreGuiPrune
    \/ StoreTick
    \/ StoreDiskFails
    \/ StoreDiskMends

SpecStore == StoreInit /\ [][StoreNext]_vars

\* ---- the retention store on a disk that works throughout
DurableInit == StoreInit /\ disk = "ok"

DurableNext ==
    \/ StoreCliLoad
    \/ StoreCliAppend
    \/ StoreCliPrune
    \/ StoreGuiLoad
    \/ StoreGuiAppend
    \/ StoreGuiPrune
    \/ StoreTick

SpecDurable == DurableInit /\ [][DurableNext]_vars

\* ---- the Demo generator, picked up anywhere along its walk
\* gas values the walk passes through, at both ends and in the middle
WalkStarts == {0, 9, DemoStart, 390, 1010, 1023}

\* Demo mode with the generator running and the log cleaned
WalkInit ==
    /\ ParseIdle /\ FilterIdle /\ CliInit /\ StoreIdle /\ RaceIdle
    /\ g_pc = "idle" /\ g_ret = "idle" /\ g_conn = "none"
    /\ g_monitor_thread = FALSE /\ g_demo_thread = TRUE
    /\ g_demo_mode = TRUE /\ g_connected = FALSE
    /\ g_status = InitStatus /\ g_log = <<>> /\ g_file = None
    /\ g_events = <<>> /\ g_wire = {} /\ g_ports = FALSE /\ g_opens = 0
    /\ g_req = [n |-> 0, value |-> 400] /\ g_nemit = 0
    /\ gm_pc = "idle" /\ gm_running = FALSE /\ gm_conn = "closed"
    /\ gm_last_gas = None /\ gm_last = "none"
    /\ gd_pc = "while" /\ gd_running = TRUE
    /\ gd_gas \in WalkStarts /\ gd_last_gas = gd_gas
    /\ g_link = "up"

WalkNext == GdIter \/ DeliverSignal

SpecWalk == WalkInit /\ [][WalkNext]_vars

\* ---- slowly drifting readings through the filter of either program
\* telemetry of a gas value that creeps up by 5 per reading
DriftLines == {Format(g, OFF, OFF, ON, 400) : g \in {100, 105, 110}}

\* both programs at start-up; p_line will hold the line last read
DriftInit == Init

\* GUI start-up with a port that opens at once
DriftGuiConnect ==
    /\ AttemptInitialConnection
    /\ g_conn' = "open"

\* the GUI's read loop reads one of lines; p_line keeps the line
DriftGuiReadFrom(lines) ==
    /\ gm_pc = "in_waiting" /\ gm_conn = "open"
    /\ g_nemit < MaxRecords
    /\ \E line \in lines : p_line' = line /\ GmLine(line)
    /\ UNCHANGED <<p_pc, p_out, filterVars, raceVars, cliVars, storeVars,
                   guiMain, gm_running, gm_conn, guiThreadsDemo>>

\* the console's read loop hands one of lines to parse_arduino_data
DriftCliReadFrom(lines) ==
    /\ Len(c_log) < MaxLog
    /\ \E line \in lines :
          /\ p_line' = line
          /\ cm_last' = IF parse_arduino_data(line) = None
                        THEN "malformed" ELSE "valid"
          /\ cli_parse_arduino_data(line)
    /\ UNCHANGED <<p_pc, p_out, filterVars, raceVars, c_pc, c_attempt, c_trace,
                   c_conn, c_running, c_wire, cm_pc, now, guiVars, storeVars>>

DriftGuiRead == DriftGuiReadFrom(DriftLines)

DriftCliRead == DriftCliReadFrom(DriftLines)

DriftNext ==
    \/ DriftGuiConnect
    \/ DriftGuiRead
    \/ DriftCliRead
    \/ DeliverSignal
    \/ GmWhile
    \/ GmIsOpen

SpecDrift == DriftInit /\ [][DriftNext]_vars

\* ---- the same two read paths on a line that delivers damaged telemetry
\* readings 100 and 110, and the line for 105 cut short, with a value that
\* is no number in its first or in its last field, or without its first field
NoisyLines ==
    LET f == BaseFields(105, OFF, 400) IN
    {Format(100, OFF, OFF, ON, 400), Format(110, OFF, OFF, ON, 400),
     Join(SubSeq(f, 1, 4)),
     Join([f EXCEPT ![1] = Field("GAS", <<"x">>)]),
     Join([f EXCEPT ![5] = Field("THRESHOLD", <<"x">>)]),
     Join(Tail(f))}

NoisyGuiRead == DriftGuiReadFrom(NoisyLines)

NoisyCliRead == DriftCliReadFrom(NoisyLines)

NoiseNext ==
    \/ DriftGuiConnect
    \/ NoisyGuiRead
    \/ NoisyCliRead
    \/ DeliverSignal
    \/ GmWhile
    \/ GmIsOpen

SpecNoise == DriftInit /\ [][NoiseNext]_vars

\* ---- the console's settings menu and its read loop, statement by statement
\* the log the console holds when the user opens the settings menu: every
\* entry was appended in this run, the oldest 31 days ago
RaceLogs ==
    {<<>>, <<CliEntry(StoreDay, 100)>>,
     <<CliEntry(9, 100), CliEntry(StoreDay, 120)>>}

\* connected, the read loop running, the user in the settings menu
RaceInit ==
    /\ ParseIdle /\ FilterIdle /\ GuiInit /\ StoreIdle /\ RaceIdle
    /\ c_pc = "menu" /\ c_attempt = 0 /\ c_trace = PassCalls(TRUE, FALSE)
    /\ c_conn = "open" /\ c_running = TRUE
    /\ c_status = InitStatus /\ c_wire = {}
    /\ cm_pc = "while" /\ cm_last = "none"
    /\ now = StoreDay /\ disk = "ok"
    /\ c_log \in RaceLogs
    /\ c_file = json_dump(c_log, CliKeys)
    /\ c_last_gas =
          IF c_log = <<>> THEN None ELSE Some(c_log[Len(c_log)].gas_value)

\* what a step of the main thread leaves alone
RaceMainFrame ==
    UNCHANGED <<parseVars, filterVars, guiVars, c_attempt, c_trace, c_conn,
                c_running, c_status, c_last_gas, c_wire, cm_pc, cm_last, now,
                disk, s_who, s_pc, g_link, log_entry>>

\* what a step of the read loop leaves alone
RaceLoopFrame ==
    UNCHANGED <<parseVars, filterVars, guiVars, storeVars, c_pc, c_attempt,
                c_trace, c_conn, c_running, c_wire, now, valid_logs, for_i,
                original_count>>

\* cleanup_old_logs: cutoff_date, original_count, valid_logs = []
RaceCleanupEnter ==
    /\ c_pc = "menu" /\ s_op # "prune"
    /\ c_pc' = "cleanup_for"
    /\ original_count' = Len(c_log)
    /\ valid_logs' = <<>>
    /\ for_i' = 0
    /\ s_cut' = <<now - RetentionDays>>
    /\ UNCHANGED <<c_log, c_file, s_op, s_removed>>
    /\ RaceMainFrame

\* cleanup_old_logs: one pass of for log_entry in self.log_data, or its end
RaceCleanupFor ==
    /\ c_pc = "cleanup_for"
    /\ IF for_i < Len(c_log)
       THEN /\ valid_logs' = IF CliKeep(c_log[for_i + 1])
                             THEN Append(valid_logs, c_log[for_i + 1])
                             ELSE valid_logs
            /\ for_i' = for_i + 1
            /\ UNCHANGED c_pc
       ELSE /\ c_pc' = "cleanup_assign"
            /\ UNCHANGED <<valid_logs, for_i>>
    /\ UNCHANGED <<c_log, c_file, original_count, s_op, s_removed, s_cut>>
    /\ RaceMainFrame

\* cleanup_old_logs: self.log_data = valid_logs
RaceCleanupAssign ==
    /\ c_pc = "cleanup_assign"
    /\ c_log' = valid_logs
    /\ c_pc' = "cleanup_count"
    /\ UNCHANGED <<c_file, valid_logs, for_i, original_count, s_op, s_removed,
                   s_cut>>
    /\ RaceMainFrame

\* cleanup_old_logs: deleted_count = original_count - len(self.log_data)
RaceCleanupCount ==
    /\ c_pc = "cleanup_count"
    /\ s_removed' = original_count - Len(c_log)
    /\ IF s_removed' > 0
       THEN c_pc' = "cleanup_save" /\ UNCHANGED s_op
       ELSE c_pc' = "menu" /\ s_op' = "prune"
    /\ UNCHANGED <<c_log, c_file, valid_logs, for_i, original_count, s_cut>>
    /\ RaceMainFrame

\* cleanup_old_logs: if deleted_count > 0: self.save_logs()
RaceCleanupSave ==
    /\ c_pc = "cleanup_save"
    /\ save_logs(c_log)
    /\ c_pc' = "menu" /\ s_op' = "prune"
    /\ UNCHANGED <<c_log, valid_logs, for_i, original_count, s_removed, s_cut>>
    /\ RaceMainFrame

\* monitor_serial: readline; parse_arduino_data up to current_status.update;
\* add_log_entry up to the delta test and log_entry = {...}
RaceRead ==
    /\ cm_pc = "in_waiting" /\ c_conn = "open"
    /\ Len(c_log) <= MaxLog
    /\ \E line \in StoreLines :
          LET rec == ParsedFields(Split(line, ",")) IN
          /\ StartsWith(line, <<"GAS", ":">>) /\ ~ParseRaises(Split(line, ","))
          /\ c_status' = rec
          /\ cm_last' = "valid"
          /\ IF cli_delta_accept(c_last_gas, rec.gas)
             THEN /\ log_entry' = Some([timestamp |-> Strftime(now),
                                        gas_value |-> rec.gas])
                  /\ cm_pc' = "append"
             ELSE /\ cm_pc' = "while"
                  /\ UNCHANGED log_entry
    /\ UNCHANGED <<c_log, c_file, c_last_gas>>
    /\ RaceLoopFrame

\* add_log_entry: self.log_data.append(log_entry)
RaceAppend ==
    /\ cm_pc = "append"
    /\ c_log' = Append(c_log, log_entry[1])
    /\ cm_pc' = "save"
    /\ UNCHANGED <<c_status, c_file, c_last_gas, cm_last, log_entry>>
    /\ RaceLoopFrame

\* add_log_entry: self.save_logs()
RaceSave ==
    /\ cm_pc = "save"
    /\ save_logs(c_log)
    /\ cm_pc' = "last"
    /\ UNCHANGED <<c_status, c_log, c_last_gas, cm_last, log_entry>>
    /\ RaceLoopFrame

\* add_log_entry: self.last_gas_value = gas_value
RaceLast ==
    /\ cm_pc = "last"
    /\ c_last_gas' = Some(log_entry[1].gas_value)
    /\ cm_pc' = "while"
    /\ UNCHANGED <<c_status, c_log, c_file, cm_last, log_entry>>
    /\ RaceLoopFrame

RaceNext ==
    \/ RaceCleanupEnter
    \/ RaceCleanupFor
    \/ RaceCleanupAssign
    \/ RaceCleanupCount
    \/ RaceCleanupSave
    \/ RaceRead
    \/ RaceAppend
    \/ RaceSave
    \/ RaceLast
    \/ CmWhile
    \/ CmIsOpen

SpecRace == RaceInit /\ [][RaceNext]_vars

\* ---- the GUI from start-up until its window is closed
\* The user closes the window.  closeEvent (stop and wait for the threads,
\* close the port, save_log_to_file) is defined at module level, after the
\* body of class GasMonitorGUI, so the window keeps QMainWindow.closeEvent:
\* the event is accepted, app.exec_() returns and sys.exit ends the process
\* and its threads with it
CloseWindow ==
    /\ GuiFrame
    /\ g_pc = "idle"
    /\ g_pc' = "exited"
    /\ gm_pc' = IF gm_pc = "idle" THEN "idle" ELSE "exited"
    /\ gd_pc' = IF gd_pc = "idle" THEN "idle" ELSE "exited"
    /\ UNCHANGED <<g_ret, g_conn, g_monitor_thread, g_demo_thread, g_demo_mode,
                   g_connected, g_status, guiStore, g_wire, g_ports, g_opens,
                   g_req, g_events, g_nemit, gm_running, gm_conn, gm_last_gas,
                   gm_last, gd_running, gd_gas, gd_last_gas>>

CloseNext ==
    \/ AttemptInitialConnection
    \/ DeliverSignal
    \/ GmWhile
    \/ GmIsOpen
    \/ GmRead
    \/ GdIter
    \/ CloseWindow

SpecClose == Init /\ [][CloseNext]_vars

(***************************************************************************)
(* Claims                                                                  *)
(***************************************************************************)
MonitorLoopRunning == gm_pc \in {"while", "is_open", "in_waiting"}
DemoGeneratorRunning == g_demo_thread /\ gd_pc = "while" /\ gd_running

\* C1: whenever the GUI is back in its event loop with demo_mode set, the
\* demo generator thread is running, also after a cancelled reconnect.
C1_DemoModeHasGenerator ==
    (g_pc = "idle" /\ g_demo_mode) => DemoGeneratorRunning

\* C2: the serial read loop and the demo generator never run at the same
\* time.
C2_LoopsExclusive == ~(MonitorLoopRunning /\ gd_pc = "while")

\* C3: at start-up with a port present the supervisor enters Demo only
\* after 3 failed attempts to open the port.
C3_DemoAfterThreeAttempts ==
    [][(g_pc = "init" /\ g_ports' /\ g_demo_mode') => g_opens' = 3]_vars

\* C4: once the read loop has met an I/O exception the link is no longer
\* Connected (port held open and the loop kept running on it).
C4_IoErrorLeavesConnected ==
    cm_last = "ioerror" => ~(c_conn = "open" /\ c_running)

\* C5: the port is closed only after the read loop has exited, and the
\* loop never checks or reads a closed port.
C5_CloseAfterLoopExit ==
    /\ c_conn = "closed" => cm_pc \in {"idle", "exited"}
    /\ cm_last # "closed_handle"

\* C6: a malformed or undecodable line leaves the read loop running and
\* raises no connection-lost event.
C6_BadLineKeepsLoop ==
    [][(gm_pc = "in_waiting" /\ gm_last' \in {"malformed", "undecodable"})
          => (gm_pc' = "while" /\ g_events' = g_events)]_vars

\* piece is name ":" value
HasName(piece, name) == Len(piece) >= 2 /\ piece[1] = name /\ piece[2] = ":"

\* the text after name ":"
FieldText(piece) == SubSeq(piece, 3, Len(piece))

\* the fixed five-field format, checked field by field
StrictFormat(line) ==
    LET parts == Split(line, ",") IN
    /\ Len(parts) = 5
    /\ HasName(parts[1], "GAS") /\ IsInt(FieldText(parts[1]))
    /\ HasName(parts[2], "LED") /\ FieldText(parts[2]) \in OnOff
    /\ HasName(parts[3], "BUZZER") /\ FieldText(parts[3]) \in OnOff
    /\ HasName(parts[4], "AUTO") /\ FieldText(parts[4]) \in OnOff
    /\ HasName(parts[5], "THRESHOLD") /\ IsInt(FieldText(parts[5]))

\* C7: a line that deviates from the five-field format yields no record:
\* the GUI parser returns None and the console status and log stay as
\* they were.
C7_DeviationIsParseError ==
    (p_pc = "done" /\ ~StrictFormat(p_line))
        => (p_out = None /\ c_status = InitStatus /\ c_log = <<>>)

\* C8: a well-formed line GAS:g,LED:l,BUZZER:b,AUTO:a,THRESHOLD:t parses
\* to the record with exactly these five values, in the GUI and in the
\* console controller.
C8_ValidLineParsed ==
    \A g \in GasSamples, l \in OnOff, b \in OnOff, a \in OnOff,
       t \in ThresholdSamples :
        LET rec == [gas |-> g, led |-> l, buzzer |-> b, auto |-> a,
                    threshold |-> t] IN
        p_line = Format(g, l, b, a, t) =>
            /\ p_pc \in {"gui", "done"} => p_out = Some(rec)
            /\ p_pc = "done" => c_status = rec

C8_Witness ==
    /\ p_pc = "done"
    /\ p_line = Format(523, ON, OFF, ON, 400)
    /\ p_out # None
    /\ c_status.gas = 523

\* C9: both delta filters accept exactly when there is no previous value
\* or the reading is at least 10 above or at least 10 below it.
C9_DeltaFilter ==
    LET accept == \/ f_prev = None
                  \/ f_cur - f_prev[1] >= 10
                  \/ f_prev[1] - f_cur >= 10 IN
    /\ f_pc \in {"gui", "done"} => f_gui = accept
    /\ f_pc = "done" => f_cli = accept

C9_Witness ==
    /\ f_pc = "done"
    /\ f_prev = Some(100)
    /\ f_cur = 90
    /\ f_gui /\ f_cli

\* C10: a threshold request outside 1..1023 writes nothing to the device
\* and leaves the status threshold alone; a request v inside the range,
\* made while connected, writes exactly THRESHOLD_v.
C10_ThresholdValidated ==
    [][g_req'.n # g_req.n =>
         IF g_req'.value \in 1..1023
         THEN (~g_demo_mode /\ g_conn = "open")
                  => g_wire' = g_wire \cup {ThresholdToken(g_req'.value)}
         ELSE g_wire' = g_wire /\ g_status'.threshold = g_status.threshold]_vars

(***************************************************************************)
(* Retention store claims                                                  *)
(***************************************************************************)
\* the store of the program the scenario runs
TheLog == IF s_who = "cli" THEN c_log ELSE g_log
TheFile == IF s_who = "cli" THEN c_file ELSE g_file
TheKeys == IF s_who = "cli" THEN CliKeys ELSE GuiKeys

\* a step that is a prune, a load, or the handling of one reading
PruneStep == s_pc = "run" /\ s_op' = "prune" /\ now' = now /\ disk' = disk
LoadStep == s_pc = "boot" /\ s_pc' = "run"
ReadingStep ==
    s_pc = "run" /\ s_op' \in {"append", "reading"} /\ now' = now /\ disk' = disk

\* days a timestamp of the scenario can name
Days == 0..99

\* the entries of log whose day is not before the cutoff, in order
NotOlder(log, cutoff) ==
    LET Keep(e) == Strptime(e.timestamp) >= cutoff IN SelectSeq(log, Keep)

\* C11: a prune removes exactly the entries older than its cutoff, no
\* other entry, and reports how many it removed.
C11_PruneByCutoff ==
    [][PruneStep =>
         \E cutoff \in Days :
            /\ TheLog' = NotOlder(TheLog, cutoff)
            /\ s_removed' = Len(TheLog) - Len(TheLog')]_vars

\* C12 as stated: a prune right after a prune with the same cutoff removes
\* nothing and leaves the log and the snapshot file as they were.
C12_SecondPruneChangesNothing ==
    [][(PruneStep /\ s_op = "prune" /\ s_cut' = s_cut) =>
         /\ s_removed' = 0
         /\ TheLog' = TheLog
         /\ TheFile' = TheFile]_vars

\* C12, amended: a prune right after a prune with the same cutoff removes
\* nothing and leaves the log as it was; the file is left as it was when it
\* already held that log, and otherwise is either untouched or rewritten
\* with that same log (the GUI saves on every prune).
C12_SecondPruneKeepsLog ==
    [][(PruneStep /\ s_op = "prune" /\ s_cut' = s_cut) =>
         /\ s_removed' = 0
         /\ TheLog' = TheLog
         /\ TheFile' \in {TheFile, json_dump(TheLog, TheKeys)}
         /\ (s_who = "cli" => TheFile' = TheFile)]_vars

\* a second prune has run, with a date range that had removed something
C12_Witness ==
    /\ s_who = "gui" /\ s_op = "prune"
    /\ s_cut = <<10, 10>> /\ s_removed = 0
    /\ g_log = <<GuiEntry(9, 100), GuiEntry(StoreDay, 100)>>
    /\ g_file = json_dump(g_log, GuiKeys)

\* logs a former run of the scenario's program can have saved
SavedLogs == IF s_who = "cli" THEN CliLogs ELSE GuiLogs

\* the entries of log the console's start-up cleanup keeps
StartupKept(log) == SelectSeq(log, CliKeep)

\* C13 as stated: loading a file that save wrote from a log gives that log
\* back, same entries, same field values, same order.
C13_LoadReproducesSaved ==
    [][(LoadStep /\ disk = "ok") =>
         \A l \in SavedLogs :
            TheFile = json_dump(l, TheKeys) => TheLog' = l]_vars

\* what json.dump writes from the log in memory
Saved == json_dump(TheLog, TheKeys)

\* C13, amended: for every log either program holds, json.load gives back
\* from the text json.dump writes the same entries, same field values, same
\* order; the GUI's load leaves exactly the saved log in memory, the
\* console's load leaves the saved log less the entries its start-up
\* cleanup finds older than the retention period.
C13_LoadReproducesKept ==
    /\ [](~JsonRaises(Saved) /\ json_load(Saved) = TheLog)
    /\ [][(LoadStep /\ disk = "ok") =>
             \A l \in SavedLogs :
                TheFile = json_dump(l, TheKeys) =>
                   TheLog' = IF s_who = "cli" THEN StartupKept(l) ELSE l]_vars

\* the GUI has loaded a saved log of three entries
C13_Witness ==
    /\ s_who = "gui" /\ s_op = "load" /\ disk = "ok"
    /\ Len(g_log) = 3
    /\ g_file = json_dump(g_log, GuiKeys)
    /\ g_log \in GuiLogs

\* the load has just failed on a file that exists: nothing was loaded and
\* the file is not the snapshot of an empty log
AfterFailedLoad ==
    /\ s_pc = "run" /\ s_op = "load"
    /\ FileExists(TheFile) /\ TheFile # json_dump(<<>>, TheKeys)
    /\ TheLog = <<>>

\* C14: a load that finds a corrupt or unreadable file completes and
\* leaves an empty list; the next reading is appended to it as its only
\* entry (and saved, by the console, when the disk works), and a prune of
\* it removes nothing.
C14_FailedLoadLeavesEmptyStore ==
    [][/\ (/\ LoadStep /\ FileExists(TheFile)
           /\ (disk = "failing" \/ JsonRaises(TheFile))) =>
             TheLog' = <<>> /\ s_pc' = "run" /\ TheFile' = TheFile
       /\ (AfterFailedLoad /\ ReadingStep) =>
             /\ s_op' = "append"
             /\ Len(TheLog') = 1
             /\ TheLog'[1].timestamp = Strftime(now)
             /\ (s_who = "cli" /\ disk = "ok") =>
                   TheFile' = json_dump(TheLog', CliKeys)
       /\ (AfterFailedLoad /\ PruneStep) =>
             /\ TheLog' = <<>> /\ s_removed' = 0
             /\ (s_who = "gui" /\ disk = "ok") =>
                   TheFile' = json_dump(<<>>, GuiKeys)]_vars

\* a load has run on a file whose text json.load rejects
C14_Witness ==
    /\ s_pc = "run" /\ s_op = "load"
    /\ disk = "ok" /\ FileExists(TheFile) /\ JsonRaises(TheFile)
    /\ TheLog = <<>>

\* C15: when the snapshot cannot be written, a reading is still handled in
\* full: the file stays as it was, the console appends every reading its
\* filter accepts and advances the filter's last value to it, the GUI
\* appends every record it is handed; this holds for every reading that
\* arrives while the disk fails, not only the first.
C15_FailedSaveKeepsEntry ==
    [][(ReadingStep /\ disk = "failing") =>
         /\ TheFile' = TheFile
         /\ s_who = "cli" =>
               IF cli_delta_accept(c_last_gas, c_status'.gas)
               THEN /\ c_log' = Append(c_log, CliEntry(now, c_status'.gas))
                    /\ c_last_gas' = Some(c_status'.gas)
               ELSE c_log' = c_log /\ c_last_gas' = c_last_gas
         /\ s_who = "gui" =>
               /\ g_log' = Append(g_log, LogEntry(StoreRecord, now))
               /\ g_status' = StoreRecord]_vars

\* the console has appended a second entry while no save got through
C15_Witness ==
    /\ s_who = "cli" /\ disk = "failing" /\ s_op = "append"
    /\ c_file = None
    /\ Len(c_log) = 2
    /\ c_last_gas = Some(c_log[2].gas_value)

\* the entries a restart would find in the file: what json.load gives, or
\* none when there is no file or json.load rejects it
Durable(file) ==
    IF FileExists(file) /\ ~JsonRaises(file) THEN json_load(file) ELSE <<>>

\* C16: on a disk that works, once the log is loaded the GUI's log is the
\* entries of its snapshot followed by at most SaveEvery - 1 newer ones,
\* and the console's log is exactly the entries of its snapshot.
C16_BatchedDurability ==
    s_pc = "run" =>
       IF s_who = "cli"
       THEN Durable(c_file) = c_log
       ELSE \E k \in 0..(SaveEvery - 1) :
               /\ k <= Len(g_log)
               /\ Durable(g_file) = SubSeq(g_log, 1, Len(g_log) - k)

\* the GUI holds SaveEvery - 1 entries its snapshot does not have
C16_Witness ==
    /\ s_who = "gui" /\ s_pc = "run" /\ s_op = "append"
    /\ Len(g_log) - Len(Durable(g_file)) = SaveEvery - 1

\* a is b with some entries left out, the others in b's order
RECURSIVE IsSubseq(_, _)
IsSubseq(a, b) ==
    IF a = <<>> THEN TRUE
    ELSE IF b = <<>> THEN FALSE
    ELSE IF Head(a) = Head(b) THEN IsSubseq(Tail(a), Tail(b))
    ELSE IsSubseq(a, Tail(b))

\* C17: no step reorders entries.  A load leaves entries of the file in the
\* file's order; any other step leaves the log as it was, or with entries
\* left out and the rest in their order, or with one entry added at the
\* end; and a step that writes the file writes the log in its order.
C17_NeverReordered ==
    [][/\ IF LoadStep
          THEN IsSubseq(TheLog', Durable(TheFile))
          ELSE \/ IsSubseq(TheLog', TheLog)
               \/ /\ Len(TheLog') = Len(TheLog) + 1
                  /\ SubSeq(TheLog', 1, Len(TheLog)) = TheLog
       /\ TheFile' # TheFile => TheFile' = json_dump(TheLog', TheKeys)]_vars

\* the console has loaded three entries, dropped the oldest, and appended
\* and saved a new one behind the two it kept
C17_Witness ==
    /\ s_who = "cli" /\ s_op = "append"
    /\ c_log = <<CliEntry(10, 120), CliEntry(StoreDay, 100),
                 CliEntry(StoreDay, 120)>>
    /\ c_file = json_dump(c_log, CliKeys)

\* the fields that make up the link state and its two threads
linkState ==
    <<g_pc, g_conn, g_demo_mode, g_connected, g_monitor_thread,
      g_demo_thread, gm_running, gd_running>>

\* C18: a Reconnect click that arrived while attempt_reconnect was running
\* is ignored: taking it out of the event queue starts no attempt and
\* changes no link state.
C18_ClickDuringAttemptIgnored ==
    [][(/\ g_events # <<>>
        /\ Head(g_events) = ReconnectClicked
        /\ g_events' = Tail(g_events)) => UNCHANGED linkState]_vars

\* C19: once check_connection has run on a link believed Connected whose
\* device had gone silent with no read error reported, the linkLost
\* transition has been made: the handle is released and the state is Demo.
C19_HealthCheckDetectsDrop ==
    g_link = "checked" => (g_demo_mode /\ g_conn = "none")

\* the places in the call trace where connect_serial tried to open the port
Opens == {i \in 1..Len(c_trace) : c_trace[i] \in {"opened", "raised"}}

\* connect_serial has returned True / False
ReturnedTrue == c_conn # "none"
ReturnedFalse == c_pc = "done" /\ c_conn = "none"

\* C20: connect_serial opens the port at most max_attempts times; each open
\* comes right after a force_close_port() and a wait; a failed open that is
\* not the last is followed by the back-off wait; it returns True at the
\* first open that succeeds, making no call after it; and once the port was
\* found it returns False only after max_attempts failed opens.
C20_ConnectRetries ==
    /\ Cardinality(Opens) <= max_attempts
    /\ \A i \in Opens :
          /\ i > 2
          /\ c_trace[i - 2] = "force_close_port"
          /\ c_trace[i - 1] = "sleep"
          /\ c_trace[i] = "opened" => i = Len(c_trace)
          /\ (c_trace[i] = "raised" /\ i < Len(c_trace)) =>
                c_trace[i + 1] = "sleep"
    /\ ReturnedTrue <=>
          (c_trace # <<>> /\ c_trace[Len(c_trace)] = "opened")
    /\ (ReturnedFalse /\ c_trace # <<>>) =>
          /\ Cardinality(Opens) = max_attempts
          /\ c_trace[Len(c_trace)] = "raised"
    /\ (c_trace # <<>> /\ ~ReturnedTrue /\ Cardinality(Opens) < max_attempts)
          => c_pc = "connect"

\* connect_serial has given up after its third failed open
C20_Witness ==
    /\ ReturnedFalse
    /\ c_attempt = max_attempts
    /\ c_trace = <<"force_close_port", "sleep", "raised", "sleep",
                   "force_close_port", "sleep", "raised", "sleep",
                   "force_close_port", "sleep", "raised">>

\* a record within the ranges the device reports
InRanges(rec) ==
    /\ rec.gas \in 0..1023
    /\ rec.threshold \in 1..1023
    /\ rec.led \in OnOff /\ rec.buzzer \in OnOff /\ rec.auto \in OnOff

\* C21: every record produced by the parsers, and so the console status
\* after a line was received, has gas in 0..1023, threshold in 1..1023 and
\* led, buzzer and auto each ON or OFF.
C21_RecordInRanges ==
    /\ (p_pc \in {"gui", "done"} /\ p_out # None) => InRanges(p_out[1])
    /\ (p_pc = "done" /\ c_status # InitStatus) => InRanges(c_status)

\* the read loop takes a line that parses to a record
SerialReading ==
    /\ gm_pc = "in_waiting" /\ gm_pc' = "while" /\ gm_last' = "valid"

\* the Demo generator makes one pass of its loop
DemoReading == gd_pc = "while" /\ gd_running /\ gd_gas' # gd_gas

\* a dataReceived signal was emitted in this step
Propagated == Len(g_events') = Len(g_events) + 1 /\ g_nemit' = g_nemit + 1

\* the Demo generator was just started: it has produced no reading yet
DemoFresh == g_nemit = 0 /\ gd_gas = DemoStart /\ gd_last_gas = DemoStart

\* the read loop propagates a reading exactly when it is the thread's first
\* or differs by at least 10 from the last one it propagated
SerialRule ==
    SerialReading =>
       \E line \in WireLines :
          /\ parse_arduino_data(line) # None
          /\ LET gas == parse_arduino_data(line)[1].gas IN
             Propagated <=>
                (gm_last_gas = None \/ Abs(gas - gm_last_gas[1]) >= MinDelta)

\* the same rule for the Demo generator
DemoRule ==
    DemoReading =>
       (Propagated <=>
           (DemoFresh \/ Abs(gd_gas' - gd_last_gas) >= MinDelta))

\* the read loop on its own follows the rule
SerialFilterRule == [][SerialRule]_vars

\* C22: the read loop and the Demo generator filter alike: the first reading
\* after the source starts is always propagated, and a later reading exactly
\* when it differs by at least 10 from the last propagated one.
C22_SameFilter == [][SerialRule /\ DemoRule]_vars

\* the gas values of the records on their way to the log and in it
DemoRecordGas ==
    {g_events[i][2].gas : i \in 1..Len(g_events)}
        \cup {g_log[i].gas : i \in 1..Len(g_log)}

\* C23: the Demo generator's gas value is always in 0..1023 and moves by at
\* most 15 down or 20 up in one step, so every record it emits, queued or
\* logged, has gas in 0..1023.
C23_BoundedWalk ==
    /\ [](gd_gas \in 0..1023 /\ DemoRecordGas \subseteq 0..1023)
    /\ [][gd_gas' - gd_gas \in -15..20]_vars

\* a step up from 1010 was cut off at 1023 and the record is in the log
C23_Witness ==
    /\ gd_gas = 1023 /\ gd_last_gas = 1023
    /\ g_log # <<>> /\ g_log[Len(g_log)].gas = 1023

\* the gas value of the last entry the console logged
LastLogged ==
    IF c_log = <<>> THEN None ELSE Some(c_log[Len(c_log)].gas_value)

\* the gas value of the last record the read loop emitted
LastEmitted ==
    IF g_events # <<>> THEN Some(g_events[Len(g_events)][2].gas)
    ELSE IF g_log # <<>> THEN Some(g_log[Len(g_log)].gas)
    ELSE None

\* a step in which the console / the GUI's read loop handles the line p_line'
DriftCliStep == guiVars' = guiVars /\ (p_line' # p_line \/ cliData' # cliData)
DriftGuiStep == gm_pc = "in_waiting" /\ gm_pc' = "while"

\* the reading is at least 10 away from the accepted value last, if any
FarFrom(last, gas) == last = None \/ Abs(gas - last[1]) >= MinDelta

\* C24: the reference value of either filter is the last accepted reading:
\* a reading is accepted exactly when it is the first or at least 10 away
\* from the last accepted one, an accepted reading becomes the reference
\* and a rejected one leaves it unchanged (of 100, 105, 110 the last is
\* accepted).
C24_ReferenceIsLastAccepted ==
    /\ [](c_last_gas = LastLogged /\ gm_last_gas = LastEmitted)
    /\ [][LET gas == parse_arduino_data(p_line')[1].gas IN
          /\ DriftCliStep =>
                LET accepted == c_log' # c_log IN
                /\ accepted <=> FarFrom(LastLogged, gas)
                /\ c_last_gas' = IF accepted THEN Some(gas) ELSE c_last_gas
          /\ DriftGuiStep =>
                LET accepted == g_events' # g_events IN
                /\ accepted <=> FarFrom(LastEmitted, gas)
                /\ gm_last_gas' = IF accepted THEN Some(gas)
                                  ELSE gm_last_gas]_vars

\* the read loop has just rejected 105 after 100, and the console has
\* logged 110 after 100
C24_Witness ==
    /\ gm_pc = "while" /\ gm_last = "valid"
    /\ gm_last_gas = Some(100)
    /\ p_line = Format(105, OFF, OFF, ON, 400)
    /\ Len(c_log) = 2 /\ c_log[1].gas_value = 100 /\ c_log[2].gas_value = 110

\* C25: within one run of the GUI any two consecutive entries of the log
\* differ in gas by at least 10, also when the data source changed between
\* them.
C25_ConsecutiveEntriesApart ==
    \A i \in 1..(Len(g_log) - 1) :
        Abs(g_log[i + 1].gas - g_log[i].gas) >= MinDelta

\* entry e is in the sequence log
InLog(e, log) == \E i \in 1..Len(log) : log[i] = e

\* the read loop is not inside add_log_entry
AddFinished == cm_pc \notin {"append", "save", "last"}

\* cleanup_old_logs has run and returned
CleanupFinished == c_pc = "menu" /\ s_op = "prune"

\* C26: an entry that add_log_entry appended while the user ran
\* cleanup_old_logs is not lost: once both have finished, the entry, being
\* newer than the cutoff, is in the log in memory and in the snapshot file.
C26_AppendSurvivesCleanup ==
    (CleanupFinished /\ AddFinished /\ log_entry # None) =>
        /\ InLog(log_entry[1], c_log)
        /\ InLog(log_entry[1], Durable(c_file))

\* the console has read nothing, so p_line is the line the GUI's read loop
\* took last; the signals it emitted have all been handled
GuiReadSettled ==
    /\ c_status = InitStatus /\ p_line # <<>>
    /\ gm_pc = "while" /\ gm_last = "valid"
    /\ g_events = <<>>

\* C27: every line that parses updates the current status to its values,
\* whether or not the reading passes the delta filter: the console on the
\* spot, the GUI once the signals of its read loop have been handled.
C27_StatusFollowsEveryLine ==
    /\ [](GuiReadSettled => g_status = parse_arduino_data(p_line)[1])
    /\ [][DriftCliStep => c_status' = parse_arduino_data(p_line')[1]]_vars

\* the console on its own keeps its status at the line read last
CliStatusFollowsEveryLine ==
    [][DriftCliStep => c_status' = parse_arduino_data(p_line')[1]]_vars

\* a step in which the console / the GUI's read loop takes a line that
\* does not parse
CliBadLine ==
    /\ guiVars' = guiVars /\ cm_last' = "malformed"
    /\ parse_arduino_data(p_line') = None
GuiBadLine ==
    /\ gm_pc = "in_waiting" /\ gm_pc' = "while"
    /\ parse_arduino_data(p_line') = None

\* C28: a line that fails to parse changes nothing: the current status,
\* the log in memory, the snapshot file and the filter's last accepted
\* value are as before, in the console and in the GUI, and the GUI's read
\* loop emits nothing.
C28_BadLineChangesNothing ==
    [][/\ CliBadLine => UNCHANGED <<c_status, c_log, c_file, c_last_gas>>
       /\ GuiBadLine =>
             UNCHANGED <<g_status, g_log, g_file, gm_last_gas, g_events>>]_vars

\* both read paths have met a line whose last field is not a number, the
\* console with an entry logged and 110 as its status
C28_Witness ==
    /\ cm_last = "malformed" /\ gm_last = "malformed"
    /\ p_line = Join([BaseFields(105, OFF, 400) EXCEPT
                         ![5] = Field("THRESHOLD", <<"x">>)])
    /\ c_status.gas = 110 /\ c_log # <<>> /\ c_last_gas # None
    /\ gm_last_gas # None

\* C29: when the window was closed and the process has ended, every entry
\* of the log in memory is in the snapshot file.
C29_CloseSavesLog ==
    g_pc = "exited" => Durable(g_file) = g_log

\* C30: whenever the GUI is in its event loop with no signal waiting to be
\* handled, demo_mode and connected are not both true, and connected
\* implies an open serial handle with a read loop running on it.
C30_LinkStateTruthful ==
    (g_pc = "idle" /\ g_events = <<>>) =>
       /\ ~(g_demo_mode /\ g_connected)
       /\ g_connected =>
             /\ g_conn = "open"
             /\ g_monitor_thread /\ MonitorLoopRunning /\ gm_conn = "open"

====
